---- MODULE Spec2Model ----
(***************************************************************************)
(* Model of the proxy data plane of yallmp:                                *)
(*   - CircuitBreaker            (app/core/proxy.py)                       *)
(*   - exponential_backoff_retry (app/core/proxy.py), the RetryExecutor    *)
(*   - OIDCTokenManager          (app/services/token_manager.py)           *)
(* Time is a discrete clock; one tick is one second for the breaker and    *)
(* one unit of milliseconds for the token manager.                         *)
(***************************************************************************)
EXTENDS Integers, Sequences, FiniteSets, TLC

(***************************************************************************)
(* Bounds of the model.                                                    *)
(***************************************************************************)
NumTasks == 2
MaxTime == 2
MaxCalls == 3
MaxRequests == 2
MaxThreshold == 2
MaxRecovery == 2
MaxWindow == 2
MaxRetries == 1
MaxTokenCalls == 3
MaxTtl == 3
MaxChunks == 3
MaxName == 3
MaxPieces == 3

Tasks == 1..NumTasks
NoTask == 0

\* values the settings may take (AppSettings / LlmProviderConfig fields)
Thresholds == 0..MaxThreshold
RecoveryTimes == 1..MaxRecovery
WindowSizes == 1..MaxWindow
RetryCounts == 0..MaxRetries
BaseDelays == {0, 1}

\* proxy_backoff_factor
backoff_factor == 2

\* milliseconds in one tick of the clock
TickMs == 10000

\* the token is refreshed 20 s before it expires
RefreshMargin == 20000

\* lifetimes a token endpoint may report, in milliseconds from the response
TokenTtls == {k * TickMs : k \in 2..MaxTtl}

\* self.token = None
NoToken == 0

\* statuses an upstream may answer with in the model
UpstreamStatuses == {200, 404, 429, 500, 502, 503, 504}

\* Retry-After header of a 429 response: absent, a number of seconds, or a
\* value int() does not parse (an HTTP date)
NoHeader == -1
NotSeconds == -2
RetryAfterValues == {NoHeader, 1, NotSeconds}

\* what one upstream call (await func(...)) can produce
Outcomes ==
    [kind : {"response"}, status : UpstreamStatuses \ {429}, retry_after : {NoHeader}]
        \cup [kind : {"response"}, status : {429}, retry_after : RetryAfterValues]
        \cup [kind : {"ConnectError", "RequestError"}, status : {0}, retry_after : {NoHeader}]

\* the answers of an upstream that returns 429 to every call, with or
\* without a Retry-After header
Always429 == [kind : {"response"}, status : {429}, retry_after : RetryAfterValues]

\* the answer of an upstream that returns 500 to every call
Always500 == {[kind |-> "response", status |-> 500, retry_after |-> NoHeader]}

\* mutant: every error status is retried
RetryableStatuses_AllErrors == {404, 429, 500, 502, 503, 504}

\* the statuses the executor treats as failures, with 429 handled apart
RetryableStatuses == {429, 500, 502, 503, 504}

\* _SUCCESS_STATUS_CODES
SuccessStatusCodes == (200..208) \cup {226}

\* last_response_status_code before any response was received
NoResponseStatus == 523

\* status of the synthetic breaker responses
BreakerStatus == 503

VARIABLES
    now,                 \* time.time()
    failure_threshold,   \* breaker policy
    recovery_time,
    window_size,
    max_retries,         \* retry policy
    base_delay,
    upstream,            \* the upstream's behaviour: "any", "always500" or "always429"
    is_open,             \* CircuitBreaker.is_open
    open_time,           \* CircuitBreaker.open_time
    failure_timestamps,  \* CircuitBreaker.failure_timestamps
    lock,                \* CircuitBreaker._lock: the task holding it, or NoTask
    pc,                  \* position of each task
    op,                  \* what each task runs: a breaker operation or "retry", the executor
    current_time,        \* record_failure's local current_time
    ret,                 \* value returned by the last breaker operation of the task
    snap,                \* value returned by get_status
    attempt,             \* loop variable of exponential_backoff_retry
    sent,                \* upstream calls issued by the running executor call
    last_status,         \* last_response_status_code
    error_response,      \* error_response
    wake_at,             \* end of the running asyncio.sleep
    result,              \* what the executor call returned
    seen_status,         \* history: status of the last HTTP response the call received, 0 if none
    last_outcome,        \* history: outcome of the last attempt of the call
    answered_at,         \* history: time at which the last attempt of the call completed
    calls_left,          \* direct breaker calls that may still be started
    requests_left,       \* executor calls that may still be started
    pre,                 \* history: breaker state when the task took the lock
    serial,              \* history: breaker state of the serial execution of the completed operations
    serial_ret,          \* history: what the task's operation returns in the serial execution
    fail_calls,          \* history: times at which record_failure was called
    success_mark,        \* history: Len(fail_calls) at the last record_success
    token,               \* OIDCTokenManager.token
    expires_at,          \* OIDCTokenManager.expires_at, in milliseconds
    tk_pc,               \* position of each task in get_token
    tk_ret,              \* token returned by get_token
    tk_post,             \* number of the POST the task is waiting for
    tk_expires_at,       \* fetch_token's local expires_at: the expiry its response reported
    expires_from,        \* history: number of the POST whose response set expires_at
    posts,               \* POSTs issued to the token endpoint so far
    rq,                  \* the request the front handler is serving
    sr_cooling,          \* history: the breaker was open and cooling when rq was taken
    sr_pc,               \* position of the front handler and of _stream_generator
    sr_sends,            \* upstream sends made for rq outside the executor
    sr_response,         \* what the handler returned to the framework
    up_open,             \* the upstream streaming response: "none", "open" or "closed"
    up_status,           \* history: the status upstream answered the send with, 0 if none
    up_body,             \* history: the kind of body upstream answered with
    sr_content,          \* the shape of the content of the handler's response
    metrics_fault,       \* history: the failure met while recording metrics and traces
    upstream_chunks,     \* history: the chunks upstream has produced
    client_chunks,       \* the chunks handed to the client
    collected_chunks,    \* _stream_generator's collected_chunks
    sr_end,              \* how the stream ended
    counter_log,         \* increments made to the token counters
    trace_log,           \* trace records emitted
    hub,                 \* LlmHub.providers: the prefixes of the loaded providers
    rt_pc,               \* position of the router
    req,                 \* the request the router was given
    route,               \* the path that handles the request
    provider,            \* prefix of the provider resolve_model selected
    original_model,      \* the model of the body as the client sent it
    stripped_model,      \* the model without the provider prefix
    body_read,           \* request.body() was awaited: the whole body is in memory
    forwarder,           \* the forwarder the handling path handed the request to
    sent_body,           \* the body handed to the forwarder for upstream
    provider_config,     \* breaker policy of the LlmProviderConfig record
    hd_pc,               \* position of the outbound header construction
    client_headers,      \* dict(request.headers): name -> value
    denylist,            \* _get_exclude_header_patterns()
    custom_headers,      \* the proxy's own auth headers
    hd_multipart,        \* the request is a multipart/form-data POST
    outbound,            \* the headers handed to the upstream client
    ver_pc,              \* position of get_model_version
    ver_reported,        \* the body upstream answered the version probe with
    ver_response,        \* what get_model_version returned
    breakers,            \* the CircuitBreaker objects of the process, by owner
    call_pc,             \* position of each request that names its breaker
    call_cb,             \* _cb of the request's exponential_backoff_retry call
    call_route,          \* the path that took the request, and its provider
    call_attempt,        \* attempt of the request's for loop
    call_left,           \* requests that may still be started
    token_calls_left     \* get_token calls that may still be started

settingsVars == <<failure_threshold, recovery_time, window_size, max_retries, base_delay,
                  upstream>>
breakerVars == <<is_open, open_time, failure_timestamps>>
opVars == <<op, current_time, ret, snap>>
execVars == <<attempt, sent, last_status, error_response, wake_at, result, seen_status,
             last_outcome, answered_at>>
historyVars == <<pre, serial, serial_ret, fail_calls, success_mark>>

budgetVars == <<calls_left, requests_left>>

tokenVars == <<token, expires_at, tk_pc, tk_ret, tk_post, tk_expires_at, expires_from,
               posts, token_calls_left>>

\* the variables of the breaker and the executor
proxyVars == <<settingsVars, breakerVars, lock, pc, opVars, execVars,
               budgetVars, historyVars>>

streamVars == <<rq, sr_cooling, sr_pc, sr_sends, sr_response, up_open, up_status, up_body,
               sr_content, metrics_fault, upstream_chunks,
               client_chunks, collected_chunks, sr_end, counter_log, trace_log>>

routeVars == <<hub, rt_pc, req, route, provider, original_model, stripped_model,
              body_read, forwarder, sent_body, provider_config>>

headerVars == <<hd_pc, client_headers, denylist, custom_headers, hd_multipart,
               outbound>>

versionVars == <<ver_pc, ver_reported, ver_response>>

callVars == <<breakers, call_pc, call_cb, call_route, call_attempt, call_left>>

vars == <<now, proxyVars, tokenVars, streamVars, routeVars, headerVars, versionVars, callVars>>

BreakerState == [is_open |-> is_open, open_time |-> open_time,
                 failure_timestamps |-> failure_timestamps]

\* CircuitBreaker.__init__
InitialBreaker == [is_open |-> FALSE, open_time |-> 0, failure_timestamps |-> <<>>]

NoBody == [kind |-> "none", status |-> 0, attempt |-> 0]
NoOutcome == [kind |-> "none", status |-> 0, retry_after |-> NoHeader]
NoResult == [status |-> 0, body |-> NoBody, passthrough |-> FALSE]
NoSerialRet == [ret |-> FALSE, snap |-> [circuit_open |-> FALSE, circuit_open_time |-> 0,
                                         failure_timestamps |-> <<>>]]
EmptySnap == [circuit_open |-> FALSE, circuit_open_time |-> 0, failure_timestamps |-> <<>>]

(***************************************************************************)
(* CircuitBreaker                                                          *)
(***************************************************************************)

\* mutant: the admission check never denies
CheckOpenResult_Never(b, t) == FALSE

\* mutant: the comparison with recovery_time made inclusive
CheckOpenResult_Inclusive(b, t) ==
    b.is_open /\ t - b.open_time <= recovery_time

\* mutant: the cool-down is over at half the recovery time
CheckOpenResult_HalfRecovery(b, t) ==
    b.is_open /\ 2 * (t - b.open_time) < recovery_time

\* mutant: the comparison with recovery_time inverted
CheckOpenResult_Inverted(b, t) ==
    b.is_open /\ t - b.open_time >= recovery_time

\* check_open: the value returned for a breaker state b read at time t
CheckOpenResult(b, t) ==
    b.is_open /\ t - b.open_time < recovery_time

\* check_open leaves the breaker as it is
CheckOpenState(b, t) == b

\* mutant: a success closes the breaker
RecordSuccessState_Closes(b) ==
    [is_open |-> FALSE, open_time |-> 0, failure_timestamps |-> <<>>]

\* record_success
RecordSuccessState(b) == [b EXCEPT !.failure_timestamps = <<>>]

\* mutant: a timestamp exactly window_size old is kept
Prune_KeepBoundary(ts, window_start) == SelectSeq(ts, LAMBDA x : x >= window_start)

\* mutant: no timestamp is dropped
Prune_Nothing(ts, window_start) == ts

\* record_failure: the list comprehension keeping ts > window_start
Prune(ts, window_start) == SelectSeq(ts, LAMBDA x : x > window_start)

\* record_failure: the list after the append and the pruning
FailuresAfter(ts, t) == Prune(Append(ts, t), t - window_size)

\* mutant: the threshold has to be exceeded
Activates_Strict(ts) == failure_threshold > 0 /\ Len(ts) > failure_threshold

\* mutant: the test for the disabled breaker is missing
Activates_NoDisable(ts) == Len(ts) >= failure_threshold

\* record_failure: the activation test
Activates(ts) == failure_threshold > 0 /\ Len(ts) >= failure_threshold

\* mutant: a breaker that is already open keeps its open_time
RecordFailureState_KeepOpenTime(b, t1, t2) ==
    LET ts == Prune(Append(b.failure_timestamps, t1), t1 - window_size)
    IN  IF failure_threshold > 0 /\ Len(ts) >= failure_threshold
        THEN [is_open |-> TRUE,
              open_time |-> IF b.is_open THEN b.open_time ELSE t2,
              failure_timestamps |-> ts]
        ELSE [b EXCEPT !.failure_timestamps = ts]

\* record_failure as one step: t1 is current_time, t2 the second time.time()
RecordFailureState(b, t1, t2) ==
    LET ts == FailuresAfter(b.failure_timestamps, t1)
    IN  IF Activates(ts)
        THEN [is_open |-> TRUE, open_time |-> t2, failure_timestamps |-> ts]
        ELSE [b EXCEPT !.failure_timestamps = ts]

RecordFailureResult(b, t1) == Activates(FailuresAfter(b.failure_timestamps, t1))

\* get_status
StatusSnapshot(b) ==
    [circuit_open |-> b.is_open, circuit_open_time |-> b.open_time,
     failure_timestamps |-> b.failure_timestamps]

\* mutant: the operations do not take the lock
CanAcquire_NoLock(t) == TRUE

\* asyncio.Lock: acquire succeeds only while nobody holds the lock
CanAcquire(t) == lock = NoTask

FirstStep(o) ==
    CASE o = "check_open" -> "co_eval"
      [] o = "record_success" -> "rs_clear"
      [] o = "record_failure" -> "rf_append"
      [] o = "get_status" -> "gs_read"

\* a coroutine has reached its return statement; the awaiting caller resumes
\* in the same turn of the event loop, before any other task or timer runs
Returning == \E t \in Tasks : pc[t] \in {"op_done", "done"}

\* async with self._lock
Acquire(t) ==
    /\ pc[t] = "acquire"
    /\ ~Returning
    /\ CanAcquire(t)
    /\ lock' = t
    /\ pc' = [pc EXCEPT ![t] = FirstStep(op[t])]
    /\ pre' = [pre EXCEPT ![t] = BreakerState]
    /\ UNCHANGED <<now, settingsVars, breakerVars, opVars, execVars, budgetVars,
                   serial, serial_ret, fail_calls, success_mark, tokenVars, streamVars, routeVars,
                   headerVars, versionVars, callVars>>

\* check_open, body
CoEval(t) ==
    /\ pc[t] = "co_eval"
    /\ ret' = [ret EXCEPT ![t] = CheckOpenResult(BreakerState, now)]
    /\ LET b == CheckOpenState(BreakerState, now)
       IN  /\ is_open' = b.is_open
           /\ open_time' = b.open_time
           /\ failure_timestamps' = b.failure_timestamps
    /\ lock' = NoTask
    /\ pc' = [pc EXCEPT ![t] = "op_done"]
    /\ serial' = CheckOpenState(serial, now)
    /\ serial_ret' = [serial_ret EXCEPT ![t].ret = CheckOpenResult(serial, now)]
    /\ UNCHANGED <<now, settingsVars, op, current_time, snap, execVars, budgetVars,
                   pre, fail_calls, success_mark, tokenVars, streamVars, routeVars,
                   headerVars, versionVars, callVars>>

\* record_success, body
RsClear(t) ==
    /\ pc[t] = "rs_clear"
    /\ failure_timestamps' = RecordSuccessState(BreakerState).failure_timestamps
    /\ lock' = NoTask
    /\ pc' = [pc EXCEPT ![t] = "op_done"]
    /\ serial' = RecordSuccessState(serial)
    /\ success_mark' = Len(fail_calls)
    /\ UNCHANGED <<now, settingsVars, is_open, open_time, opVars, execVars, budgetVars,
                   pre, serial_ret, fail_calls, tokenVars, streamVars, routeVars,
                   headerVars, versionVars, callVars>>

\* record_failure: current_time = time.time(); append
RfAppend(t) ==
    /\ pc[t] = "rf_append"
    /\ current_time' = [current_time EXCEPT ![t] = now]
    /\ failure_timestamps' = Append(failure_timestamps, now)
    /\ pc' = [pc EXCEPT ![t] = "rf_prune"]
    /\ UNCHANGED <<now, settingsVars, is_open, open_time, lock, op, ret, snap,
                   execVars, budgetVars, historyVars, tokenVars, streamVars, routeVars,
                   headerVars, versionVars, callVars>>

\* record_failure: prune the window
RfPrune(t) ==
    /\ pc[t] = "rf_prune"
    /\ failure_timestamps' = Prune(failure_timestamps, current_time[t] - window_size)
    /\ pc' = [pc EXCEPT ![t] = "rf_check"]
    /\ UNCHANGED <<now, settingsVars, is_open, open_time, lock, opVars,
                   execVars, budgetVars, historyVars, tokenVars, streamVars, routeVars,
                   headerVars, versionVars, callVars>>

\* record_failure: threshold test, second time.time(), return
RfCheck(t) ==
    /\ pc[t] = "rf_check"
    /\ IF Activates(failure_timestamps)
       THEN /\ is_open' = TRUE
            /\ open_time' = now
            /\ ret' = [ret EXCEPT ![t] = TRUE]
       ELSE /\ ret' = [ret EXCEPT ![t] = FALSE]
            /\ UNCHANGED <<is_open, open_time>>
    /\ lock' = NoTask
    /\ pc' = [pc EXCEPT ![t] = "op_done"]
    /\ serial' = RecordFailureState(serial, current_time[t], now)
    /\ serial_ret' = [serial_ret EXCEPT ![t].ret = RecordFailureResult(serial, current_time[t])]
    /\ fail_calls' = Append(fail_calls, current_time[t])
    /\ UNCHANGED <<now, settingsVars, failure_timestamps, op, current_time, snap,
                   execVars, budgetVars, pre, success_mark, tokenVars, streamVars, routeVars,
                   headerVars, versionVars, callVars>>

\* get_status, body
GsRead(t) ==
    /\ pc[t] = "gs_read"
    /\ snap' = [snap EXCEPT ![t] = StatusSnapshot(BreakerState)]
    /\ lock' = NoTask
    /\ pc' = [pc EXCEPT ![t] = "op_done"]
    /\ serial_ret' = [serial_ret EXCEPT ![t].snap = StatusSnapshot(serial)]
    /\ UNCHANGED <<now, settingsVars, breakerVars, op, current_time, ret,
                   execVars, budgetVars, pre, serial, fail_calls, success_mark,
                   tokenVars, streamVars, routeVars,
                   headerVars, versionVars, callVars>>

\* Idle tasks are interchangeable: the lowest idle task takes the next call.
CanStart(t) ==
    /\ pc[t] = "idle"
    /\ \A u \in Tasks : u < t => pc[u] # "idle"

DirectOps == {"check_open", "record_success", "record_failure", "get_status"}

\* a task calls one breaker operation (await cb.check_open(), ...)
StartOp(t, o) ==
    /\ CanStart(t)
    /\ ~Returning
    /\ calls_left > 0
    /\ calls_left' = calls_left - 1
    /\ op' = [op EXCEPT ![t] = o]
    /\ pc' = [pc EXCEPT ![t] = "acquire"]
    /\ UNCHANGED <<now, settingsVars, breakerVars, lock, current_time, ret, snap,
                   execVars, requests_left, historyVars, tokenVars, streamVars, routeVars,
                   headerVars, versionVars, callVars>>

\* the operation returns to its caller; its locals go out of scope
ReturnOp(t) ==
    /\ pc[t] = "op_done"
    /\ pc' = [pc EXCEPT ![t] = "idle"]
    /\ op' = [op EXCEPT ![t] = "none"]
    /\ current_time' = [current_time EXCEPT ![t] = 0]
    /\ ret' = [ret EXCEPT ![t] = FALSE]
    /\ snap' = [snap EXCEPT ![t] = EmptySnap]
    /\ pre' = [pre EXCEPT ![t] = InitialBreaker]
    /\ serial_ret' = [serial_ret EXCEPT ![t] = NoSerialRet]
    /\ UNCHANGED <<now, settingsVars, breakerVars, lock, execVars, budgetVars,
                   serial, fail_calls, success_mark, tokenVars, streamVars, routeVars,
                   headerVars, versionVars, callVars>>

\* time passes
Tick ==
    /\ now < MaxTime
    /\ ~Returning
    /\ now' = now + 1
    /\ UNCHANGED <<proxyVars, tokenVars, streamVars, routeVars,
                   headerVars, versionVars, callVars>>

(***************************************************************************)
(* exponential_backoff_retry                                               *)
(***************************************************************************)

\* what the upstream of this run can answer
UpstreamOutcomes ==
    CASE upstream = "always500" -> Always500
      [] upstream = "always429" -> Always429
      [] OTHER -> Outcomes

\* _base_delay * (_backoff_factor ** attempt); the jitter is below one tick
BackoffDelay(a) == base_delay * backoff_factor ^ a

\* mutant: the Retry-After header is not read
RateLimitDelay_IgnoresHeader(o, a) == BackoffDelay(a)

\* delay after a 429: Retry-After when present, the back-off otherwise
RateLimitDelay(o, a) ==
    IF o.retry_after # NoHeader THEN o.retry_after ELSE BackoffDelay(a)

\* mutant: the first attempt is not counted
Attempts_OffByOne == max_retries

\* the number of passes of the for loop
Attempts == 1 + max_retries

\* extract_content(response) of the response of one attempt
UpstreamBody(o, a) == [kind |-> "upstream", status |-> o.status, attempt |-> a + 1]

\* the dictionaries built by the two except clauses
ExceptionBody(o, a) == [kind |-> o.kind, status |-> 0, attempt |-> a + 1]

BreakerOpenResult ==
    [status |-> BreakerStatus,
     body |-> [kind |-> "Circuit breaker open. Try later.", status |-> 0, attempt |-> 0],
     passthrough |-> FALSE]

BreakerActivatedResult ==
    [status |-> BreakerStatus,
     body |-> [kind |-> "Circuit breaker activated. Try later.", status |-> 0, attempt |-> 0],
     passthrough |-> FALSE]

\* int(retry_after) has raised: the call ends with the exception, no response
RaisedResult ==
    [status |-> 0,
     body |-> [kind |-> "ValueError", status |-> 0, attempt |-> 0],
     passthrough |-> FALSE]

\* return JSONResponse(content=error_response, status_code=last_response_status_code)
ExhaustedResult(st, body) == [status |-> st, body |-> body, passthrough |-> FALSE]

\* return response
PassthroughResult(o, a) ==
    [status |-> o.status, body |-> UpstreamBody(o, a), passthrough |-> TRUE]

\* the breaker after a retryable failure
\* (activated = await _cb.record_failure(), both time.time() calls in one turn)
FailureRecorded(b, t) == RecordFailureState(b, t, t)

\* mutant: an exception resets the status to the sentinel
LastStatusAfter_ResetOnError(prev, o) ==
    IF o.kind = "response" THEN o.status ELSE NoResponseStatus

\* last_response_status_code = response.status_code, skipped when func raises
LastStatusAfter(prev, o) == IF o.kind = "response" THEN o.status ELSE prev

\* mutant: the value record_failure returns is not looked at
Activated_Ignored(b, t) == FALSE

\* activated = await _cb.record_failure(); if activated: return the 503
Activated(b, t) == RecordFailureResult(b, t)

\* one pass of the for loop: the upstream call is issued while a < Attempts,
\* else the loop is exhausted and the last status and body are returned
LoopStep(t, a) ==
    IF a < Attempts
    THEN /\ sent' = [sent EXCEPT ![t] = @ + 1]
         /\ pc' = [pc EXCEPT ![t] = "inflight"]
         /\ UNCHANGED result
    ELSE /\ result' = [result EXCEPT ![t] =
                           ExhaustedResult(last_status[t], error_response[t])]
         /\ pc' = [pc EXCEPT ![t] = "done"]
         /\ UNCHANGED sent

\* a request enters exponential_backoff_retry: check_open, then either the
\* 503 "open" or the first upstream call, which suspends the task
StartRetry(t) ==
    /\ CanStart(t)
    /\ ~Returning
    /\ requests_left > 0
    /\ requests_left' = requests_left - 1
    /\ op' = [op EXCEPT ![t] = "retry"]
    /\ LET b == CheckOpenState(BreakerState, now)
       IN  /\ is_open' = b.is_open
           /\ open_time' = b.open_time
           /\ failure_timestamps' = b.failure_timestamps
           /\ serial' = b
    /\ IF CheckOpenResult(BreakerState, now)
       THEN /\ result' = [result EXCEPT ![t] = BreakerOpenResult]
            /\ pc' = [pc EXCEPT ![t] = "done"]
            /\ UNCHANGED sent
       ELSE LoopStep(t, 0)
    /\ UNCHANGED <<now, settingsVars, lock, current_time, ret, snap, attempt,
                   last_status, error_response, wake_at, seen_status, last_outcome,
                   answered_at, calls_left,
                   pre, serial_ret, fail_calls, success_mark, tokenVars,
                   routeVars, headerVars>>

\* exponential_backoff_retry called for a request of its own
Enter(t) ==
    /\ StartRetry(t)
    /\ UNCHANGED <<streamVars, versionVars, callVars>>

\* await func(...) completes with a response or raises; the task runs to its
\* next suspension: a sleep, or the return
Respond(t, o) ==
    /\ pc[t] = "inflight"
    /\ ~Returning
    /\ o \in UpstreamOutcomes
    /\ last_status' = [last_status EXCEPT ![t] = LastStatusAfter(@, o)]
    /\ error_response' = [error_response EXCEPT ![t] =
                             IF o.kind = "response" THEN UpstreamBody(o, attempt[t])
                                                    ELSE ExceptionBody(o, attempt[t])]
    /\ seen_status' = [seen_status EXCEPT ![t] = IF o.kind = "response" THEN o.status ELSE @]
    /\ last_outcome' = [last_outcome EXCEPT ![t] = o]
    /\ answered_at' = [answered_at EXCEPT ![t] = now]
    /\ IF o.kind = "response" /\ o.status = 429 /\ o.retry_after = NotSeconds
       THEN \* int(retry_after) raises ValueError, which no except clause catches
            /\ result' = [result EXCEPT ![t] = RaisedResult]
            /\ pc' = [pc EXCEPT ![t] = "done"]
            /\ UNCHANGED <<breakerVars, serial, wake_at>>
       ELSE IF o.kind = "response" /\ o.status = 429
       THEN \* sleep, continue: the breaker is not told
            /\ wake_at' = [wake_at EXCEPT ![t] = now + RateLimitDelay(o, attempt[t])]
            /\ pc' = [pc EXCEPT ![t] = "sleep"]
            /\ UNCHANGED <<breakerVars, serial, result>>
       ELSE IF o.kind = "response" /\ o.status \notin RetryableStatuses
       THEN \* record_success, return response
            /\ LET b == RecordSuccessState(BreakerState)
               IN  /\ is_open' = b.is_open
                   /\ open_time' = b.open_time
                   /\ failure_timestamps' = b.failure_timestamps
                   /\ serial' = b
            /\ result' = [result EXCEPT ![t] = PassthroughResult(o, attempt[t])]
            /\ pc' = [pc EXCEPT ![t] = "done"]
            /\ UNCHANGED wake_at
       ELSE \* record_failure, then 503 "activated" or the back-off sleep
            /\ LET b == FailureRecorded(BreakerState, now)
               IN  /\ is_open' = b.is_open
                   /\ open_time' = b.open_time
                   /\ failure_timestamps' = b.failure_timestamps
                   /\ serial' = b
            /\ IF Activated(BreakerState, now)
               THEN /\ result' = [result EXCEPT ![t] = BreakerActivatedResult]
                    /\ pc' = [pc EXCEPT ![t] = "done"]
                    /\ UNCHANGED wake_at
               ELSE /\ wake_at' = [wake_at EXCEPT ![t] = now + BackoffDelay(attempt[t])]
                    /\ pc' = [pc EXCEPT ![t] = "sleep"]
                    /\ UNCHANGED result
    /\ UNCHANGED <<now, settingsVars, lock, opVars, attempt, sent, budgetVars,
                   pre, serial_ret, fail_calls, success_mark, tokenVars, streamVars, routeVars,
                   headerVars, versionVars, callVars>>

\* mutant: the sleep returns at once
SleepOver_NoWait(t) == TRUE

\* await asyncio.sleep(delay) returns once the delay has passed
SleepOver(t) == now >= wake_at[t]

\* asyncio.sleep(delay) is over: the next pass of the loop
Wake(t) ==
    /\ pc[t] = "sleep"
    /\ ~Returning
    /\ SleepOver(t)
    /\ attempt' = [attempt EXCEPT ![t] = @ + 1]
    /\ LoopStep(t, attempt[t] + 1)
    /\ UNCHANGED <<now, settingsVars, breakerVars, lock, opVars, last_status,
                   error_response, wake_at, seen_status, last_outcome, answered_at,
                   budgetVars, historyVars, tokenVars, streamVars, routeVars,
                   headerVars, versionVars, callVars>>

\* the caller of exponential_backoff_retry has its result; the locals go out of scope
EndRetry(t) ==
    /\ pc[t] = "done"
    /\ pc' = [pc EXCEPT ![t] = "idle"]
    /\ op' = [op EXCEPT ![t] = "none"]
    /\ attempt' = [attempt EXCEPT ![t] = 0]
    /\ sent' = [sent EXCEPT ![t] = 0]
    /\ last_status' = [last_status EXCEPT ![t] = NoResponseStatus]
    /\ error_response' = [error_response EXCEPT ![t] = NoBody]
    /\ wake_at' = [wake_at EXCEPT ![t] = 0]
    /\ result' = [result EXCEPT ![t] = NoResult]
    /\ seen_status' = [seen_status EXCEPT ![t] = 0]
    /\ last_outcome' = [last_outcome EXCEPT ![t] = NoOutcome]
    /\ answered_at' = [answered_at EXCEPT ![t] = 0]
    /\ UNCHANGED <<now, settingsVars, breakerVars, lock, current_time, ret, snap,
                   budgetVars, pre, serial, serial_ret, fail_calls, success_mark, tokenVars,
                   routeVars, headerVars>>

\* exponential_backoff_retry returns to a caller that is not modelled further
Finish(t) ==
    /\ EndRetry(t)
    /\ UNCHANGED <<streamVars, versionVars, callVars>>

(***************************************************************************)
(* OIDCTokenManager                                                        *)
(***************************************************************************)

\* Idle tasks are interchangeable: the lowest idle task takes the next call.
CanStartToken(t) ==
    /\ tk_pc[t] = "idle"
    /\ \A u \in Tasks : u < t => tk_pc[u] # "idle"

\* now_ms = int(time.time() * 1000)
NowMs == now * TickMs

\* mutant: the token is still used at the instant it expires
CacheStale_Strict(tok, exp, ms) == tok = NoToken \/ ms > exp

\* get_token: the cache cannot be used (not self.token or now_ms >= self.expires_at)
CacheStale(tok, exp, ms) == tok = NoToken \/ ms >= exp

\* mutant: the reported expiry is stored as it is
StoredExpiry_NoMargin(reported) == reported

\* fetch_token: self.expires_at = int(expires_at) - 20_000
StoredExpiry(reported) == reported - RefreshMargin

\* what the token endpoint can answer to one POST: a failure (the POST raises,
\* or raise_for_status does), or a 2xx body with or without its two fields
TokenResponses ==
    [ok : {FALSE}, has_token : {FALSE}, has_expiry : {FALSE}, ttl : {0}]
        \cup [ok : {TRUE}, has_token : BOOLEAN, has_expiry : {FALSE}, ttl : {0}]
        \cup [ok : {TRUE}, has_token : BOOLEAN, has_expiry : {TRUE}, ttl : TokenTtls]

\* get_token up to its first suspension: the cached token is returned, or
\* fetch_token is entered and the POST is issued
GetToken(t) ==
    /\ CanStartToken(t)
    /\ token_calls_left > 0
    /\ token_calls_left' = token_calls_left - 1
    /\ IF CacheStale(token, expires_at, NowMs)
       THEN /\ posts' = posts + 1
            /\ tk_post' = [tk_post EXCEPT ![t] = posts + 1]
            /\ tk_pc' = [tk_pc EXCEPT ![t] = "posting"]
            /\ UNCHANGED tk_ret
       ELSE /\ tk_ret' = [tk_ret EXCEPT ![t] = token]
            /\ tk_pc' = [tk_pc EXCEPT ![t] = "returned"]
            /\ UNCHANGED <<posts, tk_post>>
    /\ UNCHANGED <<now, token, expires_at, tk_expires_at, expires_from, proxyVars,
                   streamVars, routeVars, headerVars, versionVars, callVars>>

\* the POST completes: the rest of fetch_token and the return of get_token
PostDone(t, r) ==
    /\ tk_pc[t] = "posting"
    /\ IF ~r.ok
       THEN \* client.post or response.raise_for_status() raises
            /\ tk_pc' = [tk_pc EXCEPT ![t] = "raised"]
            /\ UNCHANGED <<token, expires_at, tk_ret, tk_expires_at, expires_from>>
       ELSE /\ token' = IF r.has_token THEN tk_post[t] ELSE NoToken
            /\ IF r.has_token /\ r.has_expiry
               THEN /\ tk_expires_at' = [tk_expires_at EXCEPT ![t] = NowMs + r.ttl]
                    /\ expires_at' = StoredExpiry(tk_expires_at'[t])
                    /\ expires_from' = tk_post[t]
                    /\ tk_ret' = [tk_ret EXCEPT ![t] = token']
                    /\ tk_pc' = [tk_pc EXCEPT ![t] = "returned"]
               ELSE \* ValueError: a field is missing
                    /\ tk_pc' = [tk_pc EXCEPT ![t] = "raised"]
                    /\ UNCHANGED <<expires_at, tk_ret, tk_expires_at, expires_from>>
    /\ UNCHANGED <<now, posts, tk_post, token_calls_left, proxyVars, streamVars, routeVars,
                   headerVars, versionVars, callVars>>

\* the caller has the token or the exception; the locals go out of scope
TokenFinish(t) ==
    /\ tk_pc[t] \in {"returned", "raised"}
    /\ tk_pc' = [tk_pc EXCEPT ![t] = "idle"]
    /\ tk_ret' = [tk_ret EXCEPT ![t] = NoToken]
    /\ tk_post' = [tk_post EXCEPT ![t] = 0]
    /\ tk_expires_at' = [tk_expires_at EXCEPT ![t] = 0]
    /\ UNCHANGED <<now, token, expires_at, expires_from, posts, token_calls_left,
                   proxyVars, streamVars, routeVars, headerVars, versionVars, callVars>>

(***************************************************************************)
(* proxy_request_with_retries and _handle_streaming_request                *)
(***************************************************************************)

\* request bodies of the model: none, JSON objects whose "stream" member is
\* true, false, the string "true" or absent, a JSON array, text that is
\* not JSON, bytes that are not valid UTF-8, and a form sent with
\* Content-Type multipart/form-data
Bodies == {"empty", "stream_true", "stream_false", "stream_string", "no_stream",
           "json_array", "not_json", "binary", "multipart"}

\* the requests the front handler may be given; completions says whether
\* "completions" occurs in the path, group_id is the x-group-id header
Requests ==
    [method : {"GET", "POST"}, body : Bodies, completions : BOOLEAN,
     group_id : {"absent", "g1"}]

NoRequest == [method |-> "none", body |-> "empty", completions |-> FALSE,
              group_id |-> "absent"]

\* json.loads(body): the parsed value, or the exception it raises
BodyJson(body) ==
    CASE body = "stream_true"   -> [kind |-> "object", stream |-> "true"]
      [] body = "stream_false"  -> [kind |-> "object", stream |-> "false"]
      [] body = "stream_string" -> [kind |-> "object", stream |-> "'true'"]
      [] body = "no_stream"     -> [kind |-> "object", stream |-> "None"]
      [] body = "json_array"    -> [kind |-> "array", stream |-> "None"]
      [] body = "binary"        -> [kind |-> "UnicodeDecodeError", stream |-> "None"]
      [] OTHER                  -> [kind |-> "JSONDecodeError", stream |-> "None"]

\* json.loads(body) of the streaming detection raises an exception that the
\* detection does not catch
DetectionRaises(r) ==
    /\ r.method = "POST"
    /\ r.body # "empty"
    /\ BodyJson(r.body).kind = "UnicodeDecodeError"

\* mutant: no request is taken for a multipart upload
IsMultipart_Never(r) == FALSE

\* method.lower() == "post" and the content-type starts with multipart/form-data
IsMultipart(r) == r.method = "POST" /\ r.body = "multipart"

\* mutant: no request is detected as streaming
IsStreaming_Never(r) == FALSE

\* is_streaming: a POST with a body whose JSON is an object with stream True;
\* JSONDecodeError and AttributeError leave it False
IsStreaming(r) ==
    /\ r.method = "POST"
    /\ r.body # "empty"
    /\ BodyJson(r.body).kind = "object"
    /\ BodyJson(r.body).stream = "true"

\* statuses upstream may answer a streaming send with
StreamStatuses == {200, 226, 209, 404, 500}

\* bodies upstream may answer with: a JSON object with a top-level "error",
\* one with a "message", one with neither, a JSON array, and text that is
\* not JSON; "sse" is an event stream
UpBodies == {"json_error", "json_message", "json_plain", "json_array", "text"}

\* what client.send(..., stream=True) can produce
SendOutcomes ==
    [kind : {"response"}, status : StreamStatuses \cap SuccessStatusCodes, body : {"sse"}]
        \cup [kind : {"response"}, status : StreamStatuses \ SuccessStatusCodes,
              body : UpBodies]
        \cup [kind : {"ConnectError", "RequestError"}, status : {0}, body : {"none"}]

\* what the one upstream call of stream_multipart_post can produce
MultipartOutcomes ==
    [kind : {"response"}, status : StreamStatuses, body : UpBodies]
        \cup [kind : {"ConnectError", "RequestError"}, status : {0}, body : {"none"}]

\* extract_content on an upstream response, and the parse of the body of a
\* refused stream: the parsed JSON, or {"detail": text} when it does not parse
ExtractContent(b) == IF b = "text" THEN "detail" ELSE "upstream"

\* response_dict.get("message", ...) raises AttributeError on a JSON array
GetRaises(b) == b = "json_array"

\* failures that recording the metrics and the trace of a response may meet:
\* on_llm_end raises, the trace sink raises, the emitter cannot be built
MetricFaults == {"none", "on_llm_end", "sink", "emitter"}

\* chunks upstream may send. Every chunk is made of whole lines; "two_frames"
\* carries a usage frame followed by the [DONE] frame, "bad_utf8" is a line
\* of bytes that are not valid UTF-8
Chunks == {"usage_a", "usage_b", "delta", "usage_nomodel", "usage_null",
           "garbage", "two_frames", "bad_utf8"}

\* chunk.decode("utf-8", errors="replace")
Decode(c) == IF c = "bad_utf8" THEN "replaced" ELSE c

\* mutant: the decoded text is forwarded
Yielded_Decoded(c) == Decode(c)

\* yield chunk
Yielded(c) == c

\* the lines of a decoded chunk, stripped
TextLines(text) ==
    CASE text = "usage_a"       -> <<"data: usage_a", "">>
      [] text = "usage_b"       -> <<"data: usage_b", "">>
      [] text = "delta"         -> <<"data: delta", "">>
      [] text = "usage_nomodel" -> <<"data: usage_nomodel", "">>
      [] text = "usage_null"    -> <<"data: usage_null", "">>
      [] text = "garbage"       -> <<"data: garbage", "">>
      [] text = "two_frames"    -> <<"data: usage_b", "", "data: [DONE]", "">>
      [] OTHER                  -> <<"replaced">>

\* stripped.startswith("data:") and stripped != "data: [DONE]"
DataLines == {"data: usage_a", "data: usage_b", "data: delta", "data: usage_nomodel",
              "data: usage_null", "data: garbage"}

NoUsage == [present |-> FALSE, is_dict |-> FALSE, prompt |-> 0, completion |-> 0,
            total |-> 0]

Usage(p, c, t) == [present |-> TRUE, is_dict |-> TRUE, prompt |-> p, completion |-> c,
                   total |-> t]

\* json.loads of the text after "data:" of a data line
Payload(line) ==
    CASE line = "data: usage_a" ->
             [ok |-> TRUE, model |-> "m1", usage |-> Usage(1, 2, 3)]
      [] line = "data: usage_b" ->
             [ok |-> TRUE, model |-> "m2", usage |-> Usage(2, 2, 4)]
      [] line = "data: delta" ->
             [ok |-> TRUE, model |-> "m1", usage |-> NoUsage]
      [] line = "data: usage_nomodel" ->
             [ok |-> TRUE, model |-> "absent", usage |-> Usage(1, 1, 2)]
      [] line = "data: usage_null" ->
             [ok |-> TRUE, model |-> "m1",
              usage |-> [present |-> TRUE, is_dict |-> FALSE, prompt |-> 0,
                         completion |-> 0, total |-> 0]]
      [] OTHER ->
             [ok |-> FALSE, model |-> "absent", usage |-> NoUsage]

RECURSIVE JoinLines(_)
\* "".join(chunks) followed by splitlines() and strip()
JoinLines(texts) ==
    IF texts = <<>> THEN <<>>
    ELSE TextLines(Head(texts)) \o JoinLines(Tail(texts))

\* mutant: the first data line is kept
LastData_First(lines) ==
    LET idx == {i \in 1..Len(lines) : lines[i] \in DataLines}
    IN  IF idx = {} THEN "none"
        ELSE lines[CHOOSE i \in idx : \A j \in idx : i <= j]

\* last_data after the loop over the lines: the last data line that is not
\* "data: [DONE]", or None
LastData(lines) ==
    LET idx == {i \in 1..Len(lines) : lines[i] \in DataLines}
    IN  IF idx = {} THEN "none"
        ELSE lines[CHOOSE i \in idx : \A j \in idx : i >= j]

\* request.headers.get("x-group-id", "unknown")
GroupId(r) == IF r.group_id = "absent" THEN "unknown" ELSE r.group_id

\* labels of the three token counters
Labels(r, model) ==
    [type |-> "prompt", name |-> "proxy", group_id |-> GroupId(r), model |-> model]

\* MetricsCallbackHandler.on_llm_end on a dict: the increments of the three
\* counters; without "model" the counters of model "unknown" are raised by 0
OnLlmEnd(r, payload) ==
    IF payload.usage.present /\ payload.model # "absent"
    THEN [labels |-> Labels(r, payload.model), prompt |-> payload.usage.prompt,
          completion |-> payload.usage.completion, total |-> payload.usage.total]
    ELSE [labels |-> Labels(r, "unknown"), prompt |-> 0, completion |-> 0, total |-> 0]

\* token_usage.get(...) raises AttributeError when "usage" is not an object
OnLlmEndRaises(payload) ==
    payload.usage.present /\ payload.model # "absent" /\ ~payload.usage.is_dict

\* the trace_proxy_request call of _emit_streaming_metrics
StreamTrace(r, payload) ==
    [model |-> IF payload.model = "absent" THEN "" ELSE payload.model,
     status_code |-> 200, usage |-> payload.usage, group_id |-> GroupId(r),
     is_streaming |-> TRUE]

\* _emit_streaming_metrics: the counter increments and trace records it
\* makes; every exception is caught and logged
EmitStreamingMetrics(texts, r) ==
    LET last_data == LastData(JoinLines(texts))
        last_payload == Payload(last_data)
    IN  IF last_data = "none" \/ ~last_payload.ok
        THEN [counters |-> <<>>, traces |-> <<>>]
        ELSE IF ~last_payload.usage.present
        THEN [counters |-> <<>>, traces |-> <<StreamTrace(r, last_payload)>>]
        ELSE IF OnLlmEndRaises(last_payload)
        THEN [counters |-> <<>>, traces |-> <<>>]
        ELSE [counters |-> <<OnLlmEnd(r, last_payload)>>,
              traces |-> <<StreamTrace(r, last_payload)>>]

NoResponse == [kind |-> "none", status |-> 0, media_type |-> "none", message |-> "none"]

\* mutant: a failed connection is reported as an internal error
ConnectionFailedResponse_Internal ==
    [kind |-> "json", status |-> 500, media_type |-> "application/json",
     message |-> "Proxy request failed"]

\* JSONResponse of a failed connection
ConnectionFailedResponse ==
    [kind |-> "json", status |-> 502, media_type |-> "application/json",
     message |-> "Upstream connection failed"]

\* the 500 of the except Exception clause of the handler
InternalErrorResponse ==
    [kind |-> "json", status |-> 500, media_type |-> "application/json",
     message |-> "Proxy request failed"]

\* the envelope {"error": {"status_code": N, "message": ..., "details": ...}}
\* built for a response that is not a success
ErrorEnvelope(status, b) ==
    [kind |-> "json", status |-> status, media_type |-> "application/json",
     message |-> IF b = "json_message" THEN "upstream message"
                 ELSE "Proxy request failed"]

\* JSONResponse(content=extract_content(response), status_code=...)
JsonPassResponse(status) ==
    [kind |-> "json", status |-> status, media_type |-> "application/json",
     message |-> "upstream body"]

\* JSONResponse carrying the upstream error body
UpstreamErrorResponse(status) ==
    [kind |-> "json", status |-> status, media_type |-> "application/json",
     message |-> "upstream body"]

\* StreamingResponse(_stream_generator(), ...)
StreamingResponse(status) ==
    [kind |-> "stream", status |-> status, media_type |-> "text/event-stream",
     message |-> "none"]

\* state of the front handler before a request
InitFront ==
    /\ rq = NoRequest
    /\ sr_cooling = FALSE
    /\ sr_pc = "idle"
    /\ sr_sends = 0
    /\ sr_response = NoResponse
    /\ up_open = "none"
    /\ up_status = 0
    /\ up_body = "none"
    /\ sr_content = "none"
    /\ metrics_fault = "none"
    /\ upstream_chunks = <<>>
    /\ client_chunks = <<>>
    /\ collected_chunks = <<>>
    /\ sr_end = "none"
    /\ counter_log = <<>>
    /\ trace_log = <<>>

\* proxy_request_with_retries takes a request: a streaming request goes to
\* _handle_streaming_request, which issues client.send; any other request
\* enters exponential_backoff_retry
Dispatch(r) ==
    /\ sr_pc = "idle"
    /\ rq = NoRequest
    /\ rq' = r
    /\ sr_cooling' = (is_open /\ now - open_time < recovery_time)
    /\ IF IsMultipart(r)
       THEN /\ sr_pc' = "multipart"
            /\ sr_sends' = sr_sends + 1
            /\ UNCHANGED <<now, proxyVars, tokenVars, routeVars, headerVars,
                           sr_response, sr_content>>
       ELSE IF DetectionRaises(r)
       THEN /\ sr_pc' = "returned"
            /\ sr_response' = InternalErrorResponse
            /\ sr_content' = "error_envelope"
            /\ UNCHANGED <<now, proxyVars, tokenVars, routeVars, headerVars,
                           sr_sends>>
       ELSE IF IsStreaming(r)
       THEN /\ sr_pc' = "send"
            /\ sr_sends' = sr_sends + 1
            /\ UNCHANGED <<now, proxyVars, tokenVars, routeVars, headerVars,
                           sr_response, sr_content>>
       ELSE /\ sr_pc' = "executor"
            /\ StartRetry(1)
            /\ UNCHANGED <<sr_sends, sr_response, sr_content>>
    /\ UNCHANGED <<up_open, up_status, up_body, metrics_fault, upstream_chunks,
                   client_chunks, collected_chunks, sr_end, counter_log, trace_log,
                   versionVars, callVars>>

\* client.send(..., stream=True) completes: a connection error gives the
\* JSON 502, a status outside _SUCCESS_STATUS_CODES is read, closed and
\* returned as JSON, any other status starts a StreamingResponse
SendDone(o) ==
    /\ sr_pc = "send"
    /\ up_status' = o.status
    /\ up_body' = o.body
    /\ IF o.kind # "response"
       THEN /\ sr_response' = ConnectionFailedResponse
            /\ sr_content' = "error_envelope"
            /\ sr_pc' = "returned"
            /\ UNCHANGED up_open
       ELSE IF o.status \notin SuccessStatusCodes
       THEN /\ sr_response' = UpstreamErrorResponse(o.status)
            /\ sr_content' = ExtractContent(o.body)
            /\ sr_pc' = "returned"
            /\ up_open' = "closed"
       ELSE /\ sr_response' = StreamingResponse(o.status)
            /\ sr_content' = "stream"
            /\ sr_pc' = "responded"
            /\ up_open' = "open"
    /\ UNCHANGED <<now, proxyVars, tokenVars, routeVars, headerVars, versionVars, callVars, rq, sr_cooling, sr_sends, metrics_fault,
                   upstream_chunks, client_chunks, collected_chunks, sr_end,
                   counter_log, trace_log>>

\* the upstream call of stream_multipart_post completes: the response is
\* read and returned as JSON under the upstream status; an exception leaves
\* through the handler's except clause
MultipartDone(o) ==
    /\ sr_pc = "multipart"
    /\ up_status' = o.status
    /\ up_body' = o.body
    /\ IF o.kind # "response"
       THEN /\ sr_response' = InternalErrorResponse
            /\ sr_content' = "error_envelope"
            /\ UNCHANGED up_open
       ELSE /\ sr_response' = JsonPassResponse(o.status)
            /\ sr_content' = ExtractContent(o.body)
            /\ up_open' = "closed"
    /\ sr_pc' = "returned"
    /\ UNCHANGED <<now, proxyVars, tokenVars, routeVars, headerVars, versionVars, callVars, rq, sr_cooling, sr_sends, metrics_fault,
                   upstream_chunks, client_chunks, collected_chunks, sr_end,
                   counter_log, trace_log>>

\* json.loads(response.text) of a non-streaming answer, as on_llm_end and the
\* trace read it
BodyPayload(b) ==
    IF b = "json_plain"
    THEN [ok |-> TRUE, model |-> "m1", usage |-> Usage(3, 4, 7)]
    ELSE [ok |-> b # "text", model |-> "absent", usage |-> NoUsage]

\* the trace_proxy_request call of the non-streaming path
PlainTrace(r, payload, status) ==
    [model |-> IF payload.model = "absent" THEN "" ELSE payload.model,
     status_code |-> status, usage |-> payload.usage, group_id |-> GroupId(r),
     is_streaming |-> FALSE]

\* the metrics block of a successful non-streaming answer raises out of the
\* handler's try: json.loads(response.text) on a body that is not JSON,
\* response_data.get on a JSON array, or get_emitter() failing to build the
\* emitter; on_llm_end and the emitter's own call are wrapped and logged
MetricsAbort(r, b, f) ==
    r.completions /\ (b = "text" \/ GetRaises(b) \/ f = "emitter")

\* what proxy_request_with_retries makes of the executor's result res for
\* request r; b is the upstream body the result carries (from_upstream),
\* f the failure met while recording metrics
Forwarded(r, res, from_upstream, b, f) ==
    IF res = RaisedResult
    THEN [response |-> InternalErrorResponse, content |-> "error_envelope",
          counters |-> <<>>, traces |-> <<>>]
    ELSE IF res.passthrough /\ res.status \in SuccessStatusCodes
    THEN IF MetricsAbort(r, b, f)
         THEN [response |-> InternalErrorResponse, content |-> "error_envelope",
               counters |-> IF b = "text" \/ f = "on_llm_end" THEN <<>>
                            ELSE <<OnLlmEnd(r, BodyPayload(b))>>,
               traces |-> <<>>]
         ELSE [response |-> JsonPassResponse(res.status),
               content |-> ExtractContent(b),
               counters |-> IF r.completions /\ f # "on_llm_end"
                            THEN <<OnLlmEnd(r, BodyPayload(b))>> ELSE <<>>,
               traces |-> IF r.completions /\ f # "sink"
                          THEN <<PlainTrace(r, BodyPayload(b), res.status)>> ELSE <<>>]
    ELSE IF from_upstream /\ GetRaises(b)
    THEN [response |-> InternalErrorResponse, content |-> "error_envelope",
          counters |-> <<>>, traces |-> <<>>]
    ELSE [response |-> ErrorEnvelope(res.status, IF from_upstream THEN b ELSE "none"),
          content |-> "error_envelope", counters |-> <<>>, traces |-> <<>>]

\* exponential_backoff_retry returns to proxy_request_with_retries, which
\* records metrics for a success on a completions path and builds the
\* response: the upstream JSON for a success, the error envelope otherwise,
\* the 500 envelope when anything raised
ExecutorReturn(b, f) ==
    /\ sr_pc = "executor"
    /\ EndRetry(1)
    /\ LET res == result[1]
           from_upstream == last_outcome[1].kind = "response"
           out == Forwarded(rq, res, from_upstream, b, f)
       IN  /\ sr_response' = out.response
           /\ sr_content' = out.content
           /\ counter_log' = counter_log \o out.counters
           /\ trace_log' = trace_log \o out.traces
           /\ up_status' = IF res.passthrough THEN res.status ELSE 0
           /\ up_body' = IF from_upstream THEN b ELSE "none"
    /\ metrics_fault' = f
    /\ sr_pc' = "returned"
    /\ UNCHANGED <<rq, sr_cooling, sr_sends, up_open, upstream_chunks, client_chunks,
                   collected_chunks, sr_end, versionVars, callVars>>

\* the framework starts to iterate _stream_generator, which runs to its
\* first await on upstream_response.aiter_bytes()
BeginIteration ==
    /\ sr_pc = "responded"
    /\ sr_pc' = "gen_wait"
    /\ UNCHANGED <<now, proxyVars, tokenVars, routeVars, headerVars, versionVars, callVars, rq, sr_cooling, sr_sends, sr_response, up_open, up_status,
                   up_body, sr_content, metrics_fault,
                   upstream_chunks, client_chunks, collected_chunks, sr_end,
                   counter_log, trace_log>>

\* the client disconnects before the framework has begun to iterate the
\* body: the generator was never started, so its try/finally is never run
DisconnectBeforeIteration ==
    /\ sr_pc = "responded"
    /\ sr_pc' = "finished"
    /\ sr_end' = "disconnect"
    /\ UNCHANGED <<now, proxyVars, tokenVars, routeVars, headerVars, versionVars, callVars, rq, sr_cooling, sr_sends, sr_response, up_open, up_status,
                   up_body, sr_content, metrics_fault,
                   upstream_chunks, client_chunks, collected_chunks,
                   counter_log, trace_log>>

\* one pass of the async for: upstream delivers chunk c, its decoded text is
\* collected, and the chunk is yielded to the framework
UpstreamChunk(c) ==
    /\ sr_pc = "gen_wait"
    /\ Len(upstream_chunks) < MaxChunks
    /\ upstream_chunks' = Append(upstream_chunks, c)
    /\ collected_chunks' = Append(collected_chunks, Decode(c))
    /\ client_chunks' = Append(client_chunks, Yielded(c))
    /\ sr_pc' = "gen_yield"
    /\ UNCHANGED <<now, proxyVars, tokenVars, routeVars, headerVars, versionVars, callVars, rq, sr_cooling, sr_sends, sr_response, up_open, up_status,
                   up_body, sr_content, metrics_fault,
                   sr_end, counter_log, trace_log>>

\* the framework has sent the chunk and asks the generator for the next one
ClientPull ==
    /\ sr_pc = "gen_yield"
    /\ sr_pc' = "gen_wait"
    /\ UNCHANGED <<now, proxyVars, tokenVars, routeVars, headerVars, versionVars, callVars, rq, sr_cooling, sr_sends, sr_response, up_open, up_status,
                   up_body, sr_content, metrics_fault,
                   upstream_chunks, client_chunks, collected_chunks, sr_end,
                   counter_log, trace_log>>

\* the generator leaves the try block: aiter_bytes() is exhausted ("eof") or
\* raises ("upstream_error") while the generator waits for a chunk, or the
\* client disconnects ("disconnect") and the generator is cancelled or closed
\* where it is suspended
LeaveTry(how) ==
    /\ \/ sr_pc = "gen_wait"
       \/ sr_pc = "gen_yield" /\ how = "disconnect"
    /\ sr_end' = how
    /\ sr_pc' = "gen_finally"
    /\ UNCHANGED <<now, proxyVars, tokenVars, routeVars, headerVars, versionVars, callVars, rq, sr_cooling, sr_sends, sr_response, up_open, up_status,
                   up_body, sr_content, metrics_fault,
                   upstream_chunks, client_chunks, collected_chunks,
                   counter_log, trace_log>>

\* finally: await upstream_response.aclose()
CloseUpstream ==
    /\ sr_pc = "gen_finally"
    /\ up_open' = "closed"
    /\ sr_pc' = IF rq.completions THEN "gen_metrics" ELSE "finished"
    /\ UNCHANGED <<now, proxyVars, tokenVars, routeVars, headerVars, versionVars, callVars, rq, sr_cooling, sr_sends, sr_response, up_status,
                   up_body, sr_content, metrics_fault, upstream_chunks, client_chunks, collected_chunks, sr_end,
                   counter_log, trace_log>>

\* finally: _emit_streaming_metrics(collected_chunks, ...)
EmitMetrics ==
    /\ sr_pc = "gen_metrics"
    /\ LET m == EmitStreamingMetrics(collected_chunks, rq)
       IN  /\ counter_log' = counter_log \o m.counters
           /\ trace_log' = trace_log \o m.traces
    /\ sr_pc' = "finished"
    /\ UNCHANGED <<now, proxyVars, tokenVars, routeVars, headerVars, versionVars, callVars, rq, sr_cooling, sr_sends, sr_response, up_open, up_status,
                   up_body, sr_content, metrics_fault,
                   upstream_chunks, client_chunks, collected_chunks, sr_end>>

StreamEnds == {"eof", "upstream_error", "disconnect"}

(***************************************************************************)
(* Specifications                                                          *)
(***************************************************************************)

\* OIDCTokenManager.__init__
InitTokenManager ==
    /\ token = NoToken
    /\ expires_at = 0
    /\ tk_pc = [t \in Tasks |-> "idle"]
    /\ tk_ret = [t \in Tasks |-> NoToken]
    /\ tk_post = [t \in Tasks |-> 0]
    /\ tk_expires_at = [t \in Tasks |-> 0]
    /\ expires_from = 0
    /\ posts = 0
    /\ token_calls_left = MaxTokenCalls

\* CircuitBreaker.__init__ and the module state before the first request
InitProxy ==
    /\ now = 0
    /\ is_open = InitialBreaker.is_open
    /\ open_time = InitialBreaker.open_time
    /\ failure_timestamps = InitialBreaker.failure_timestamps
    /\ lock = NoTask
    /\ pc = [t \in Tasks |-> "idle"]
    /\ op = [t \in Tasks |-> "none"]
    /\ current_time = [t \in Tasks |-> 0]
    /\ ret = [t \in Tasks |-> FALSE]
    /\ snap = [t \in Tasks |-> EmptySnap]
    /\ attempt = [t \in Tasks |-> 0]
    /\ sent = [t \in Tasks |-> 0]
    /\ last_status = [t \in Tasks |-> NoResponseStatus]
    /\ error_response = [t \in Tasks |-> NoBody]
    /\ wake_at = [t \in Tasks |-> 0]
    /\ result = [t \in Tasks |-> NoResult]
    /\ seen_status = [t \in Tasks |-> 0]
    /\ last_outcome = [t \in Tasks |-> NoOutcome]
    /\ answered_at = [t \in Tasks |-> 0]
    /\ calls_left = MaxCalls
    /\ requests_left = MaxRequests
    /\ pre = [t \in Tasks |-> InitialBreaker]
    /\ serial = InitialBreaker
    /\ serial_ret = [t \in Tasks |-> NoSerialRet]
    /\ fail_calls = <<>>
    /\ success_mark = 0

\* ---------------------------------------------------------------------
\* the router of app.py and the provider registry of llm_hub.py

\* characters of a model name; "/" separates the provider prefix
Chars == {"a", "b", "/"}

\* model names: the strings over Chars of at most MaxName characters
Names == UNION {[1..n -> Chars] : n \in 0..MaxName}

\* prefixes under which a provider may be loaded
Prefixes == {<<"a">>, <<"a", "b">>}

\* the registries: LlmHub.providers maps a prefix to its LlmProvider
Hubs == SUBSET Prefixes

\* values of the "model" field of a JSON object body: absent, null, a
\* non-zero number, a non-empty list, or a string
ModelValues ==
    [t : {"absent", "null", "int", "list"}, v : {<<>>}] \cup [t : {"str"}, v : Names]

\* request bodies as bytes: form tells the client's serialisation from the
\* one json.dumps produces; binary holds bytes that are not UTF-8
ClientBodies ==
    [kind : {"empty", "not_json", "binary", "json_array"},
     model : {[t |-> "absent", v |-> <<>>]}, stream : {FALSE}, form : {"client"}]
        \cup [kind : {"object"}, model : ModelValues, stream : BOOLEAN,
              form : {"client"}]

\* requests the router may be given; multipart is the content-type
RouteRequests ==
    [method : {"GET", "POST"}, multipart : BOOLEAN, body : ClientBodies]

NoRouteRequest ==
    [method |-> "none", multipart |-> FALSE,
     body |-> [kind |-> "empty", model |-> [t |-> "absent", v |-> <<>>],
               stream |-> FALSE, form |-> "client"]]

NoRouteBody == NoRouteRequest.body

\* "/" in prefixed_name
HasSlash(name) == \E i \in 1..Len(name) : name[i] = "/"

\* position of the first "/"
FirstSlash(name) ==
    CHOOSE i \in 1..Len(name) :
        name[i] = "/" /\ \A j \in 1..(i - 1) : name[j] # "/"

NotResolved == [found |-> FALSE, prefix |-> <<>>, model |-> <<>>]

\* mutant: the name is split at its last "/"
ResolveModel_LastSlash(h, name) ==
    IF ~HasSlash(name) THEN NotResolved
    ELSE LET i == CHOOSE k \in 1..Len(name) :
                      name[k] = "/" /\ \A j \in (k + 1)..Len(name) : name[j] # "/"
             prefix == SubSeq(name, 1, i - 1)
         IN  IF prefix \in h
             THEN [found |-> TRUE, prefix |-> prefix,
                   model |-> SubSeq(name, i + 1, Len(name))]
             ELSE NotResolved

\* LlmHub.resolve_model: prefixed_name.split("/", 1), then providers.get(prefix)
ResolveModel(h, name) ==
    IF ~HasSlash(name) THEN NotResolved
    ELSE LET i == FirstSlash(name)
             prefix == SubSeq(name, 1, i - 1)
         IN  IF prefix \in h
             THEN [found |-> TRUE, prefix |-> prefix,
                   model |-> SubSeq(name, i + 1, Len(name))]
             ELSE NotResolved

\* json.loads(body) raises UnicodeDecodeError, which is neither a
\* JSONDecodeError nor an AttributeError
LoadsRaises(b) == b.kind = "binary"

\* model = body_json.get("model", "") under except (JSONDecodeError,
\* AttributeError): model = ""
BodyModel(b) ==
    IF b.kind = "object" /\ b.model.t # "absent" THEN b.model
    ELSE [t |-> "str", v |-> <<>>]

\* if model: the value is truthy
Truthy(m) == m.t \in {"int", "list"} \/ (m.t = "str" /\ m.v # <<>>)

\* "/" not in prefixed_name raises TypeError when the name is a number
ResolveRaises(m) == m.t = "int"

\* mutant: the model is replaced whatever the body's model is
StripModelPrefix_Always(b, original, stripped) ==
    IF b.kind = "object"
    THEN [b EXCEPT !.model = [t |-> "str", v |-> stripped], !.form = "dumps"]
    ELSE b

\* _strip_model_prefix: a JSON object whose model equals original_model is
\* serialised again with the stripped model; any other body is returned as is
StripModelPrefix(b, original, stripped) ==
    IF b.kind = "object" /\ b.model = [t |-> "str", v |-> original]
    THEN [b EXCEPT !.model = [t |-> "str", v |-> stripped], !.form = "dumps"]
    ELSE b

\* is_streaming of either forwarder: a POST with a body whose JSON is an
\* object with stream True
StreamDetected(method, b) ==
    method = "POST" /\ b.kind = "object" /\ b.stream

\* the router before a request
RouterIdle ==
    /\ rt_pc = "idle"
    /\ req = NoRouteRequest
    /\ route = "none"
    /\ provider = <<>>
    /\ original_model = <<>>
    /\ stripped_model = <<>>
    /\ body_read = FALSE
    /\ forwarder = "none"
    /\ sent_body = NoRouteBody

\* breaker policies of a provider record
ProviderPolicies ==
    [failure_threshold : Thresholds, recovery_time : {1}, window_size : {1}]

\* no registry is loaded
InitRouter ==
    /\ hub = {}
    /\ provider_config = [failure_threshold |-> 0, recovery_time |-> 1,
                          window_size |-> 1]
    /\ RouterIdle

\* proxy_request of app.py: a POST with a non-empty registry reads the body,
\* parses it and asks the registry; everything else goes to the single path
Route(r) ==
    /\ rt_pc = "idle"
    /\ req' = r
    /\ IF r.method = "POST" /\ hub # {}
       THEN /\ body_read' = TRUE
            /\ IF LoadsRaises(r.body)
                  \/ (Truthy(BodyModel(r.body)) /\ ResolveRaises(BodyModel(r.body)))
               THEN /\ rt_pc' = "raised"
                    /\ UNCHANGED <<route, provider, original_model, stripped_model>>
               ELSE LET m == BodyModel(r.body)
                        res == IF Truthy(m) /\ m.t = "str"
                               THEN ResolveModel(hub, m.v) ELSE NotResolved
                    IN  /\ rt_pc' = "routed"
                        /\ IF res.found
                           THEN /\ route' = "provider"
                                /\ provider' = res.prefix
                                /\ original_model' = m.v
                                /\ stripped_model' = res.model
                           ELSE /\ route' = "single"
                                /\ UNCHANGED <<provider, original_model,
                                               stripped_model>>
       ELSE /\ rt_pc' = "routed"
            /\ route' = "single"
            /\ UNCHANGED <<body_read, provider, original_model, stripped_model>>
    /\ UNCHANGED <<now, proxyVars, tokenVars, streamVars, headerVars, versionVars, callVars,
                   hub, forwarder, sent_body,
                   provider_config>>

\* proxy_request_to_provider: the body is read, the prefix is stripped, and
\* the request goes to the streaming handler or to the retry executor
ProviderForward ==
    /\ rt_pc = "routed"
    /\ route = "provider"
    /\ body_read' = TRUE
    /\ LET body == StripModelPrefix(req.body, original_model, stripped_model)
       IN  /\ sent_body' = body
           /\ forwarder' = IF StreamDetected(req.method, body)
                           THEN "streaming" ELSE "executor"
    /\ rt_pc' = "forwarded"
    /\ UNCHANGED <<now, proxyVars, tokenVars, streamVars, headerVars, versionVars, callVars,
                   hub, req, route, provider,
                   original_model, stripped_model, provider_config>>

\* proxy_request_with_retries: a multipart POST goes to stream_multipart_post,
\* which forwards request.stream(); any other request has its body read and
\* goes to the streaming handler or to the retry executor
SingleForward ==
    /\ rt_pc = "routed"
    /\ route = "single"
    /\ IF req.method = "POST" /\ req.multipart
       THEN /\ forwarder' = "multipart"
            /\ UNCHANGED body_read
       ELSE /\ body_read' = TRUE
            /\ forwarder' =
                  IF req.method = "POST" /\ LoadsRaises(req.body) THEN "error"
                  ELSE IF StreamDetected(req.method, req.body) THEN "streaming"
                  ELSE "executor"
    /\ sent_body' = req.body
    /\ rt_pc' = "forwarded"
    /\ UNCHANGED <<now, proxyVars, tokenVars, streamVars, headerVars, versionVars, callVars,
                   hub, req, route, provider,
                   original_model, stripped_model, provider_config>>

\* _strip_model_prefix called on a body json.loads can read or reject
StripCall(b, original) ==
    /\ rt_pc = "idle"
    /\ ~LoadsRaises(b)
    /\ LET res == ResolveModel(hub, original)
       IN  /\ res.found
           /\ req' = [method |-> "POST", multipart |-> FALSE, body |-> b]
           /\ original_model' = original
           /\ stripped_model' = res.model
           /\ provider' = res.prefix
           /\ sent_body' = StripModelPrefix(b, original, res.model)
    /\ rt_pc' = "stripped"
    /\ UNCHANGED <<now, proxyVars, tokenVars, streamVars, headerVars, versionVars, callVars,
                   hub, route, body_read,
                   forwarder, provider_config>>

\* ---------------------------------------------------------------------
\* outbound headers of proxy_request_with_retries and proxy_request_to_provider

\* header names are sequences of pieces, the letters glob patterns match on;
\* the server delivers client header names in lower case
ClientNames ==
    {<<"authorization">>, <<"host">>, <<"x-forwarded-", "for">>, <<"jwt-", "token">>,
     <<"accept-encoding">>, <<"content-length">>, <<"x-api-key">>, <<"x-group-id">>}

\* glob patterns of proxy_exclude_headers, lower case; "*" matches any run of
\* pieces
Patterns ==
    {<<"host">>, <<"authorization">>, <<"x-forwarded-", "*">>, <<"jwt-", "*">>, <<"*">>}

\* value of a client header; accept-encoding asks for a compressed body
ClientValue(k) == IF k = <<"accept-encoding">> THEN "gzip" ELSE "client"

\* the header dicts a client may send: any set of names
ClientHeaderSets == {[k \in S |-> ClientValue(k)] : S \in SUBSET ClientNames}

NoHeaders == [k \in {} |-> "none"]

\* get_authorization_headers and LlmProvider.get_auth_headers: a bearer
\* token, an API key, or nothing
AuthHeaderSets ==
    {NoHeaders, [k \in {<<"Authorization">>} |-> "Bearer proxy"],
     [k \in {<<"X-API-KEY">>} |-> "proxy-key"]}

\* k.lower()
LowerPiece(p) ==
    CASE p = "Authorization" -> "authorization"
      [] p = "X-API-KEY" -> "x-api-key"
      [] OTHER -> p

Lower(k) == [i \in 1..Len(k) |-> LowerPiece(k[i])]

\* mutant: a pattern matches only the name equal to it
FnMatch_Literal(name, pat) == name = pat

\* fnmatch.fnmatch(name, pat)
RECURSIVE FnMatch(_, _)
FnMatch(name, pat) ==
    IF pat = <<>> THEN name = <<>>
    ELSE IF Head(pat) = "*"
    THEN FnMatch(name, Tail(pat)) \/ (name # <<>> /\ FnMatch(Tail(name), pat))
    ELSE name # <<>> /\ Head(name) = Head(pat) /\ FnMatch(Tail(name), Tail(pat))

\* any(fnmatch.fnmatch(k.lower(), pattern) for pattern in exclude)
Excluded(k, exclude) == \E pat \in exclude : FnMatch(Lower(k), pat)

\* {k: v for k, v in headers.items() if not any(...)}
Filtered(h, exclude) ==
    [k \in {n \in DOMAIN h : ~Excluded(n, exclude)} |-> h[k]]

\* headers.update(other): dict keys are compared as they are written
Update(h, other) ==
    [k \in DOMAIN h \cup DOMAIN other |-> IF k \in DOMAIN other THEN other[k] ELSE h[k]]

\* headers["accept-encoding"] = "identity"
AcceptIdentity == [k \in {<<"accept-encoding">>} |-> "identity"]

\* the headers both forwarders build: filter, add the auth headers, force
\* accept-encoding
BuildHeaders(h, exclude, auth) ==
    Update(Update(Filtered(h, exclude), auth), AcceptIdentity)

\* names stream_multipart_post leaves out of forwarded_headers
HopByHop ==
    {<<"content-length">>, <<"transfer-encoding">>, <<"connection">>, <<"expect">>,
     <<"host">>}

\* forwarded_headers of stream_multipart_post
MultipartHeaders(h) ==
    [k \in {n \in DOMAIN h : Lower(n) \notin HopByHop} |-> h[k]]

\* no request is being forwarded
InitHeaders ==
    /\ hd_pc = "idle"
    /\ client_headers = NoHeaders
    /\ denylist = {}
    /\ custom_headers = NoHeaders
    /\ hd_multipart = FALSE
    /\ outbound = NoHeaders

\* proxy_request_with_retries builds the outbound headers; a multipart POST
\* passes them through stream_multipart_post
SingleHeaders ==
    /\ hd_pc = "request"
    /\ LET headers == BuildHeaders(client_headers, denylist, custom_headers)
       IN  outbound' = IF hd_multipart THEN MultipartHeaders(headers) ELSE headers
    /\ hd_pc' = "single"
    /\ UNCHANGED <<now, proxyVars, tokenVars, streamVars, routeVars, versionVars, callVars,
                   client_headers, denylist, custom_headers, hd_multipart>>

\* proxy_request_to_provider builds the outbound headers; it has no
\* multipart branch
ProviderHeaders ==
    /\ hd_pc = "request"
    /\ outbound' = BuildHeaders(client_headers, denylist, custom_headers)
    /\ hd_pc' = "provider"
    /\ UNCHANGED <<now, proxyVars, tokenVars, streamVars, routeVars, versionVars, callVars,
                   client_headers, denylist, custom_headers, hd_multipart>>

\* ---------------------------------------------------------------------
\* get_model_version

\* pieces of a model string: a base name, the two size suffixes and the
\* separator of name and version
VersionPieces == {"GigaChat", "-Pro", "-Max", ":"}

\* model strings: sequences of at most MaxPieces pieces
ModelStrings == UNION {[1..n -> VersionPieces] : n \in 0..MaxPieces}

\* bodies upstream may answer the probe with: text that is not JSON, a JSON
\* array, or a JSON object whose model is absent, null, a number or a string
ReportedBodies ==
    [json : {"text", "array"}, model : {[t |-> "absent", v |-> <<>>]}]
        \cup [json : {"object"},
              model : [t : {"absent", "null", "int"}, v : {<<>>}]
                          \cup [t : {"str"}, v : ModelStrings]]

NoReported == [status |-> 0, json |-> "none", model |-> [t |-> "absent", v |-> <<>>]]

\* model_string.split(":", 1) has two parts
HasColon(m) == \E i \in 1..Len(m) : m[i] = ":"

FirstColon(m) ==
    CHOOSE i \in 1..Len(m) : m[i] = ":" /\ \A j \in 1..(i - 1) : m[j] # ":"

\* name.replace(old, new)
ReplacePiece(name, old, new) ==
    [i \in 1..Len(name) |-> IF name[i] = old THEN new ELSE name[i]]

\* name.endswith(suffix)
EndsWith(name, suffix) == name # <<>> /\ name[Len(name)] = suffix

NoVersion == [parsed |-> FALSE, version |-> <<>>]

\* _parse_model_version: None without a ":", otherwise the name with its
\* size suffix expanded, ":" and the version
ParseModelVersion(m) ==
    IF ~HasColon(m) THEN NoVersion
    ELSE LET i == FirstColon(m)
             name == SubSeq(m, 1, i - 1)
             version == SubSeq(m, i + 1, Len(m))
             full == IF EndsWith(name, "-Pro")
                     THEN ReplacePiece(name, "-Pro", "-90b-128k-base")
                     ELSE IF EndsWith(name, "-Max")
                     THEN ReplacePiece(name, "-Max", "-38b-128k-base")
                     ELSE name \o <<"-9b-128k-base">>
         IN  [parsed |-> TRUE, version |-> full \o <<":">> \o version]

NoVersionResponse == [status |-> 0, form |-> "none", version |-> <<>>]

\* the dict {"version": ...} returned to the framework, which answers 200
VersionResponse(v) == [status |-> 200, form |-> "version", version |-> v]

\* the function returns None and the framework answers 200 with the body null
NullResponse == [status |-> 200, form |-> "null", version |-> <<>>]

\* JSONResponse with the error envelope
VersionError(status) == [status |-> status, form |-> "error", version |-> <<>>]

\* what get_model_version returns for the executor's result res, answered
\* by upstream (from_upstream) with the body rep
GetModelVersion(res, from_upstream, rep) ==
    IF res = RaisedResult THEN VersionError(500)
    ELSE IF res.passthrough /\ res.status \in SuccessStatusCodes
    THEN IF rep.json # "object" \/ rep.model.t = "int" THEN VersionError(500)
         ELSE IF rep.model.t # "str" \/ rep.model.v = <<>> THEN NullResponse
         ELSE LET parsed == ParseModelVersion(rep.model.v)
              IN  IF parsed.parsed THEN VersionResponse(parsed.version)
                  ELSE NullResponse
    ELSE IF from_upstream /\ rep.json = "array" THEN VersionError(500)
    ELSE VersionError(res.status)

\* get_model_version has not been called
InitVersion ==
    /\ ver_pc = "idle"
    /\ ver_reported = NoReported
    /\ ver_response = NoVersionResponse

\* GET /llm/version: get_model_version posts its probe through
\* exponential_backoff_retry
VersionCall ==
    /\ ver_pc = "idle"
    /\ StartRetry(1)
    /\ ver_pc' = "executor"
    /\ UNCHANGED <<streamVars, callVars, ver_reported, ver_response>>

\* the executor returns and get_model_version builds its answer
VersionReturn(rep) ==
    /\ ver_pc = "executor"
    /\ EndRetry(1)
    /\ LET res == result[1]
           from_upstream == last_outcome[1].kind = "response"
       IN  /\ ver_reported' =
                 IF from_upstream
                 THEN [status |-> res.status, json |-> rep.json, model |-> rep.model]
                 ELSE NoReported
           /\ ver_response' = GetModelVersion(res, from_upstream, rep)
    /\ ver_pc' = "returned"
    /\ UNCHANGED <<streamVars, callVars>>

(***************************************************************************)
(* One breaker per upstream                                                *)
(***************************************************************************)

\* the providers of the hub: LlmHub.providers, one LlmProvider per prefix
Providers == {"A", "B"}

\* circuit_breaker = CircuitBreaker(), the module-level breaker
DefaultBreaker == "default"

\* the CircuitBreaker objects: the module-level one and
\* LlmProvider.circuit_breaker of every provider
Upstreams == {DefaultBreaker} \cup Providers

\* cb=None
NoCb == "None"

\* the routes a request may take: proxy_request_to_provider with the
\* provider the hub resolved, or proxy_request_with_retries
CallRoutes ==
    [path : {"provider"}, provider : Providers]
        \cup [path : {"single"}, provider : {"none"}]

NoCallRoute == [path |-> "none", provider |-> "none"]

\* the cb argument of the exponential_backoff_retry call:
\* cb=provider.circuit_breaker in proxy_request_to_provider, none in
\* proxy_request_with_retries
BreakerArgument(r) == IF r.path = "provider" THEN r.provider ELSE NoCb

\* mutant: the breaker handed in by the caller is not used
SelectBreaker_AlwaysDefault(cb) == DefaultBreaker

\* _cb = cb or circuit_breaker
SelectBreaker(cb) == IF cb = NoCb THEN DefaultBreaker ELSE cb

\* every breaker as constructed, no request under way
InitCalls ==
    /\ breakers = [u \in Upstreams |-> InitialBreaker]
    /\ call_pc = [t \in Tasks |-> "idle"]
    /\ call_cb = [t \in Tasks |-> NoCb]
    /\ call_route = [t \in Tasks |-> NoCallRoute]
    /\ call_attempt = [t \in Tasks |-> 0]
    /\ call_left = MaxRequests

\* a request on route r reaches exponential_backoff_retry: _cb is chosen,
\* check_open is asked, and the request gets the 503 or its first attempt
\* is issued
CallStart(t, r) ==
    /\ call_pc[t] = "idle"
    /\ call_left > 0
    /\ call_left' = call_left - 1
    /\ call_route' = [call_route EXCEPT ![t] = r]
    /\ LET cb == SelectBreaker(BreakerArgument(r))
       IN  /\ call_cb' = [call_cb EXCEPT ![t] = cb]
           /\ breakers' = [breakers EXCEPT ![cb] = CheckOpenState(@, now)]
           /\ call_pc' = [call_pc EXCEPT ![t] =
                              IF CheckOpenResult(breakers[cb], now)
                              THEN "done" ELSE "inflight"]
    /\ UNCHANGED <<now, proxyVars, tokenVars, streamVars, routeVars, headerVars,
                   versionVars, call_attempt>>

\* the upstream call of the request's current attempt completes: a 429 is
\* slept on, a non-retryable status is a record_success on _cb, anything
\* else a record_failure on _cb; the loop goes on while attempts are left
\* and the breaker was not activated
CallRespond(t, o) ==
    /\ call_pc[t] = "inflight"
    /\ LET cb == call_cb[t]
           goes_on == call_attempt[t] + 1 < Attempts
       IN  IF o.kind = "response" /\ o.status = 429
           THEN /\ call_pc' = [call_pc EXCEPT ![t] =
                                   IF o.retry_after # NotSeconds /\ goes_on
                                   THEN "inflight" ELSE "done"]
                /\ UNCHANGED breakers
           ELSE IF o.kind = "response" /\ o.status \notin RetryableStatuses
           THEN /\ breakers' = [breakers EXCEPT ![cb] = RecordSuccessState(@)]
                /\ call_pc' = [call_pc EXCEPT ![t] = "done"]
           ELSE /\ breakers' = [breakers EXCEPT ![cb] = FailureRecorded(@, now)]
                /\ call_pc' = [call_pc EXCEPT ![t] =
                                   IF ~Activated(breakers[cb], now) /\ goes_on
                                   THEN "inflight" ELSE "done"]
    /\ call_attempt' = [call_attempt EXCEPT ![t] = @ + 1]
    /\ UNCHANGED <<now, proxyVars, tokenVars, streamVars, routeVars, headerVars,
                   versionVars, call_cb, call_route, call_left>>

\* exponential_backoff_retry has returned to the handler
CallEnd(t) ==
    /\ call_pc[t] = "done"
    /\ call_pc' = [call_pc EXCEPT ![t] = "idle"]
    /\ call_cb' = [call_cb EXCEPT ![t] = NoCb]
    /\ call_route' = [call_route EXCEPT ![t] = NoCallRoute]
    /\ call_attempt' = [call_attempt EXCEPT ![t] = 0]
    /\ UNCHANGED <<now, proxyVars, tokenVars, streamVars, routeVars, headerVars,
                   versionVars, breakers, call_left>>

\* the executor under every policy of the model
Init ==
    /\ failure_threshold \in Thresholds
    /\ recovery_time \in RecoveryTimes
    /\ window_size \in WindowSizes
    /\ max_retries \in RetryCounts
    /\ base_delay \in BaseDelays
    /\ upstream \in {"any", "always500"}
    /\ InitProxy
    /\ InitTokenManager
    /\ InitFront
    /\ InitHeaders
    /\ InitVersion
    /\ InitCalls
    /\ InitRouter

\* the breaker alone under every breaker policy; the retry policy plays no part
InitBreaker ==
    /\ failure_threshold \in Thresholds
    /\ recovery_time \in RecoveryTimes
    /\ window_size \in WindowSizes
    /\ max_retries = 0
    /\ base_delay = 0
    /\ upstream = "any"
    /\ InitProxy
    /\ InitTokenManager
    /\ InitFront
    /\ InitHeaders
    /\ InitVersion
    /\ InitCalls
    /\ InitRouter

\* the token manager; the breaker and the executor play no part
InitToken ==
    /\ failure_threshold = 0
    /\ recovery_time = 1
    /\ window_size = 1
    /\ max_retries = 0
    /\ base_delay = 0
    /\ upstream = "any"
    /\ InitProxy
    /\ InitTokenManager
    /\ InitFront
    /\ InitHeaders
    /\ InitVersion
    /\ InitCalls
    /\ InitRouter

\* the breaker driven through its four operations, called in any order by
\* concurrent tasks
NextBreaker ==
    \/ Tick
    \/ \E t \in Tasks : \E o \in DirectOps : StartOp(t, o)
    \/ \E t \in Tasks : Acquire(t)
    \/ \E t \in Tasks : CoEval(t)
    \/ \E t \in Tasks : RsClear(t)
    \/ \E t \in Tasks : RfAppend(t)
    \/ \E t \in Tasks : RfPrune(t)
    \/ \E t \in Tasks : RfCheck(t)
    \/ \E t \in Tasks : GsRead(t)
    \/ \E t \in Tasks : ReturnOp(t)

SpecBreaker == InitBreaker /\ [][NextBreaker]_vars

\* concurrent requests through exponential_backoff_retry; a task runs from
\* one suspension point (the upstream call, the sleep) to the next
Next ==
    \/ Tick
    \/ \E t \in Tasks : Enter(t)
    \/ \E t \in Tasks : \E o \in Outcomes : Respond(t, o)
    \/ \E t \in Tasks : Wake(t)
    \/ \E t \in Tasks : Finish(t)

Spec == Init /\ [][Next]_vars

\* failure thresholds of scenario S4: none, reached within one call of three
\* attempts, and reached only by a later call
S4Thresholds == 0..(MaxThreshold + 2)

\* scenario S4: max_retries = 2, no back-off delay, every attempt answered 500
InitS4 ==
    /\ failure_threshold \in S4Thresholds
    /\ recovery_time \in RecoveryTimes
    /\ window_size \in WindowSizes
    /\ max_retries = 2
    /\ base_delay = 0
    /\ upstream = "always500"
    /\ InitProxy
    /\ InitTokenManager
    /\ InitFront
    /\ InitHeaders
    /\ InitVersion
    /\ InitCalls
    /\ InitRouter

SpecS4 == InitS4 /\ [][Next]_vars

\* every policy, every attempt answered 429
InitRateLimited ==
    /\ failure_threshold \in Thresholds
    /\ recovery_time \in RecoveryTimes
    /\ window_size \in WindowSizes
    /\ max_retries \in RetryCounts
    /\ base_delay \in BaseDelays
    /\ upstream = "always429"
    /\ InitProxy
    /\ InitTokenManager
    /\ InitFront
    /\ InitHeaders
    /\ InitVersion
    /\ InitCalls
    /\ InitRouter

SpecRateLimited == InitRateLimited /\ [][Next]_vars

\* one request through proxy_request_with_retries under a fixed breaker and
\* retry policy
InitStream ==
    /\ failure_threshold = 1
    /\ recovery_time = 1
    /\ window_size = 1
    /\ max_retries = 1
    /\ base_delay = 0
    /\ upstream = "any"
    /\ InitProxy
    /\ InitTokenManager
    /\ InitFront
    /\ InitHeaders
    /\ InitVersion
    /\ InitCalls
    /\ InitRouter

NextStream ==
    \/ Tick
    \/ \E r \in Requests : Dispatch(r)
    \/ \E o \in SendOutcomes : SendDone(o)
    \/ \E o \in MultipartOutcomes : MultipartDone(o)
    \/ \E b \in UpBodies : \E f \in MetricFaults : ExecutorReturn(b, f)
    \/ BeginIteration
    \/ DisconnectBeforeIteration
    \/ \E c \in Chunks : UpstreamChunk(c)
    \/ ClientPull
    \/ \E how \in StreamEnds : LeaveTry(how)
    \/ CloseUpstream
    \/ EmitMetrics
    \/ \E o \in Outcomes : Respond(1, o)
    \/ Wake(1)

SpecStream == InitStream /\ [][NextStream]_vars

\* the front handler next to a GET /llm/version request, whose probe goes
\* through the executor and can open the breaker: one failure opens it
InitBypass ==
    /\ failure_threshold = 1
    /\ recovery_time = 2
    /\ window_size = 1
    /\ max_retries = 0
    /\ base_delay = 0
    /\ upstream = "any"
    /\ InitProxy
    /\ InitTokenManager
    /\ InitFront
    /\ InitHeaders
    /\ InitVersion
    /\ InitCalls
    /\ InitRouter

\* the upstream answers of the version probe and the stream chunks play no
\* part here: one of each
BypassReported == {rep \in ReportedBodies : rep.json = "text"}
BypassChunks == {"delta"}

NextBypass ==
    \/ Tick
    \/ \E r \in Requests : Dispatch(r)
    \/ \E o \in SendOutcomes : SendDone(o)
    \/ \E o \in MultipartOutcomes : MultipartDone(o)
    \/ \E b \in UpBodies : \E f \in MetricFaults : ExecutorReturn(b, f)
    \/ BeginIteration
    \/ DisconnectBeforeIteration
    \/ \E c \in BypassChunks : UpstreamChunk(c)
    \/ ClientPull
    \/ \E how \in StreamEnds : LeaveTry(how)
    \/ CloseUpstream
    \/ EmitMetrics
    \/ \E o \in Outcomes : Respond(1, o)
    \/ Wake(1)
    \/ VersionCall
    \/ \E rep \in BypassReported : VersionReturn(rep)

SpecBypass == InitBypass /\ [][NextBypass]_vars

\* concurrent requests over the provider path and the single-provider path,
\* every breaker built from the same settings
InitUpstreams ==
    /\ failure_threshold \in 1..MaxThreshold
    /\ recovery_time \in RecoveryTimes
    /\ window_size \in WindowSizes
    /\ max_retries \in RetryCounts
    /\ base_delay = 0
    /\ upstream = "any"
    /\ InitProxy
    /\ InitTokenManager
    /\ InitFront
    /\ InitHeaders
    /\ InitVersion
    /\ InitCalls
    /\ InitRouter

NextUpstreams ==
    \/ Tick
    \/ \E t \in Tasks : \E r \in CallRoutes : CallStart(t, r)
    \/ \E t \in Tasks : \E o \in Outcomes : CallRespond(t, o)
    \/ \E t \in Tasks : CallEnd(t)

SpecUpstreams == InitUpstreams /\ [][NextUpstreams]_vars

\* an argument of CircuitBreaker.__init__: given, or left at None
NotGiven == [given |-> FALSE, value |-> 0]

\* LlmProvider.__init__: self.circuit_breaker = CircuitBreaker(), no argument
\* is taken from the provider record
ProviderBreakerArgs(cfg) ==
    [failure_threshold |-> NotGiven, recovery_time |-> NotGiven,
     window_size |-> NotGiven]

\* the breaker's properties: the argument when it was given, the global
\* proxy setting otherwise
BreakerProperty(arg, setting) == IF arg.given THEN arg.value ELSE setting

\* requests routed to one provider: the executor runs with the provider's
\* breaker, under every provider record and every global breaker setting
InitProvider ==
    /\ provider_config \in ProviderPolicies
    /\ \E settings \in ProviderPolicies :
          LET args == ProviderBreakerArgs(provider_config)
          IN  /\ failure_threshold =
                    BreakerProperty(args.failure_threshold, settings.failure_threshold)
              /\ recovery_time =
                    BreakerProperty(args.recovery_time, settings.recovery_time)
              /\ window_size =
                    BreakerProperty(args.window_size, settings.window_size)
    /\ max_retries = 1
    /\ base_delay = 0
    /\ upstream = "any"
    /\ InitProxy
    /\ InitTokenManager
    /\ InitFront
    /\ InitHeaders
    /\ InitVersion
    /\ InitCalls
    /\ hub = {<<"a">>}
    /\ RouterIdle

SpecProvider == InitProvider /\ [][Next]_vars

\* one request through the router of app.py under every registry, and the
\* prefix stripping called on its own
InitRoute ==
    /\ failure_threshold = 0
    /\ recovery_time = 1
    /\ window_size = 1
    /\ max_retries = 0
    /\ base_delay = 0
    /\ upstream = "any"
    /\ InitProxy
    /\ InitTokenManager
    /\ InitFront
    /\ InitHeaders
    /\ InitVersion
    /\ InitCalls
    /\ hub \in Hubs
    /\ provider_config = [failure_threshold |-> 0, recovery_time |-> 1,
                          window_size |-> 1]
    /\ RouterIdle

NextRoute ==
    \/ \E r \in RouteRequests : Route(r)
    \/ ProviderForward
    \/ SingleForward
    \/ \E b \in ClientBodies : \E original \in Names : StripCall(b, original)

SpecRoute == InitRoute /\ [][NextRoute]_vars

\* the outbound headers of one request under every client header set,
\* every denylist and every auth mode
InitHeaderSpec ==
    /\ failure_threshold = 0
    /\ recovery_time = 1
    /\ window_size = 1
    /\ max_retries = 0
    /\ base_delay = 0
    /\ upstream = "any"
    /\ InitProxy
    /\ InitTokenManager
    /\ InitFront
    /\ InitRouter
    /\ InitVersion
    /\ InitCalls
    /\ hd_pc = "request"
    /\ client_headers \in ClientHeaderSets
    /\ denylist \in SUBSET Patterns
    /\ custom_headers \in AuthHeaderSets
    /\ hd_multipart \in BOOLEAN
    /\ outbound = NoHeaders

NextHeaders ==
    \/ SingleHeaders
    \/ ProviderHeaders

SpecHeaders == InitHeaderSpec /\ [][NextHeaders]_vars

\* one call of get_model_version under a fixed breaker and retry policy
InitVersionSpec ==
    /\ failure_threshold = 1
    /\ recovery_time = 1
    /\ window_size = 1
    /\ max_retries = 1
    /\ base_delay = 0
    /\ upstream = "any"
    /\ InitProxy
    /\ InitTokenManager
    /\ InitFront
    /\ InitHeaders
    /\ InitRouter
    /\ InitVersion
    /\ InitCalls

NextVersion ==
    \/ Tick
    \/ VersionCall
    \/ \E o \in Outcomes : Respond(1, o)
    \/ Wake(1)
    \/ \E rep \in ReportedBodies : VersionReturn(rep)

SpecVersion == InitVersionSpec /\ [][NextVersion]_vars

\* concurrent get_token calls on one token manager
NextToken ==
    \/ Tick
    \/ \E t \in Tasks : GetToken(t)
    \/ \E t \in Tasks : \E r \in TokenResponses : PostDone(t, r)
    \/ \E t \in Tasks : TokenFinish(t)

SpecToken == InitToken /\ [][NextToken]_vars

(***************************************************************************)
(* Properties                                                              *)
(***************************************************************************)

\* steps of one task, recognised by its position before and after
CheckOpenReturns(t) == pc[t] = "co_eval" /\ pc'[t] = "op_done"
RecordFailureReturns(t) == pc[t] = "rf_check" /\ pc'[t] = "op_done"
EntersRetry(t) == op[t] = "none" /\ op'[t] = "retry"

\* the breaker is open and recovery_time has not passed since open_time
Cooling == is_open /\ now - open_time < recovery_time

\* C1: check_open returns true (the request is denied) if and only if the
\* breaker is open and less than recovery_time has passed since open_time;
\* closed, or open with recovery_time elapsed, the request is admitted.
C1_DeniedIffOpenAndCooling ==
    [][\A t \in Tasks : CheckOpenReturns(t) => (ret'[t] <=> Cooling)]_vars

\* C1 witness: an admission check has denied a request
C1_Witness ==
    \E t \in Tasks : pc[t] = "op_done" /\ op[t] = "check_open" /\ ret[t]

\* C2: an admission check made while the breaker is open with recovery_time
\* elapsed resets it: afterwards is_open is false and the failure list is empty.
C2_CheckResetsAfterRecovery ==
    [][\A t \in Tasks :
          (CheckOpenReturns(t) /\ is_open /\ now - open_time >= recovery_time)
              => (~is_open' /\ failure_timestamps' = <<>>)]_vars

\* the record_failure calls counted from index first on whose time lies
\* within window_size of time ct
CallsWithin(calls, first, ct) ==
    Cardinality({i \in first..Len(calls) : calls[i] > ct - window_size})

\* C3 as stated: once record_failure has been called failure_threshold (> 0)
\* times within window_size the breaker is open, and every admission check
\* is denied until recovery_time has elapsed since it opened.
C3_Original ==
    [][/\ \A t \in Tasks :
            (/\ RecordFailureReturns(t)
             /\ failure_threshold > 0
             /\ CallsWithin(fail_calls', 1, current_time[t]) >= failure_threshold)
                => (is_open' /\ open_time' = now)
       /\ \A t \in Tasks : (CheckOpenReturns(t) /\ Cooling) => ret'[t]]_vars

\* C3 amended: the calls counted are those made since the last record_success.
C3_TripsAndDeniesUntilRecovery ==
    [][/\ \A t \in Tasks :
            (/\ RecordFailureReturns(t)
             /\ failure_threshold > 0
             /\ CallsWithin(fail_calls', success_mark + 1, current_time[t])
                    >= failure_threshold)
                => (is_open' /\ open_time' = now)
       /\ \A t \in Tasks : (CheckOpenReturns(t) /\ Cooling) => ret'[t]]_vars

\* C3 witness: a check is denied after failure_threshold >= 2 failures
C3_Witness ==
    /\ failure_threshold >= 2
    /\ Len(fail_calls) - success_mark >= failure_threshold
    /\ \E t \in Tasks : pc[t] = "op_done" /\ op[t] = "check_open" /\ ret[t]

\* C4: record_failure appends the current time, drops the timestamps that
\* are not newer than current time minus window_size, returns true exactly
\* when failure_threshold > 0 and the remaining count is >= failure_threshold;
\* on true the breaker is open with open_time = now, on false is_open and
\* open_time are as before the call.
C4_RecordFailureContract ==
    [][\A t \in Tasks :
          RecordFailureReturns(t) =>
              LET before == pre[t]
                  all == before.failure_timestamps \o <<current_time[t]>>
                  kept == SelectSeq(all, LAMBDA x : current_time[t] - x < window_size)
              IN  /\ failure_timestamps' = kept
                  /\ ret'[t] <=> (failure_threshold > 0 /\ Len(kept) >= failure_threshold)
                  /\ ret'[t] => (is_open' /\ open_time' = now)
                  /\ ~ret'[t] => (/\ is_open' = before.is_open
                                  /\ open_time' = before.open_time)]_vars

\* C4 witness: record_failure has returned true on a list that held a failure
C4_Witness ==
    \E t \in Tasks :
        /\ pc[t] = "op_done"
        /\ op[t] = "record_failure"
        /\ ret[t]
        /\ Len(pre[t].failure_timestamps) >= 1

BreakerResults == {BreakerOpenResult, BreakerActivatedResult}

\* C5: with failure_threshold = 0 the breaker never opens, no admission
\* check denies and no request is answered with a breaker 503.
C5_DisabledBreakerNeverOpens ==
    failure_threshold = 0 =>
        /\ ~is_open
        /\ \A t \in Tasks :
              /\ result[t] \notin BreakerResults
              /\ (pc[t] = "op_done" /\ op[t] \in {"check_open", "record_failure"})
                    => ~ret[t]

\* C5 witness: a request has used up its retries on failures, breaker disabled
C5_Witness ==
    /\ failure_threshold = 0
    /\ Len(failure_timestamps) >= 2
    /\ \E t \in Tasks : pc[t] = "done" /\ sent[t] >= 2 /\ result[t].status = 500

\* C6: the operations of one breaker are atomic: whenever the lock is free
\* the breaker is in the state reached by running the completed operations
\* one after the other, and each operation returns what it returns in that
\* serial run, so no failure is lost or counted twice.
C6_OperationsSerializable ==
    /\ lock = NoTask => BreakerState = serial
    /\ \A t \in Tasks :
          pc[t] = "op_done" =>
              /\ op[t] \in {"check_open", "record_failure"} => ret[t] = serial_ret[t].ret
              /\ op[t] = "get_status" => snap[t] = serial_ret[t].snap

\* C6 witness: a record_failure call returns with both failures so far in
\* the list while a concurrent record_failure call waits for the lock
C6_Witness ==
    /\ Len(failure_timestamps) = 2
    /\ Len(fail_calls) = 2
    /\ pc[1] = "op_done" /\ op[1] = "record_failure"
    /\ pc[2] = "acquire" /\ op[2] = "record_failure"

\* C7: single-flight refresh: concurrent get_token calls that find the cache
\* empty or expired issue at most one POST between them; no second POST is
\* issued while one is in flight.
C7_SingleFlight ==
    Cardinality({t \in Tasks : tk_pc[t] = "posting"}) <= 1

\* steps of one get_token call
GetTokenStarts(t) == tk_pc[t] = "idle" /\ tk_pc'[t] # "idle"
PostReturns(t) == tk_pc[t] = "posting" /\ tk_pc'[t] # "posting"

\* C8: get_token returns the cached token without any POST whenever a token
\* is cached and now_ms < expires_at; with an empty or expired cache it issues
\* exactly one POST and what it returns is the token fetched by that POST.
C8_CachedOrOneFetch ==
    [][\A t \in Tasks :
          /\ GetTokenStarts(t) =>
                IF token # NoToken /\ NowMs < expires_at
                THEN /\ posts' = posts
                     /\ tk_pc'[t] = "returned"
                     /\ tk_ret'[t] = token
                     /\ token' = token
                ELSE /\ posts' = posts + 1
                     /\ tk_pc'[t] = "posting"
          /\ PostReturns(t) =>
                /\ posts' = posts
                /\ tk_pc'[t] = "returned" => (tk_ret'[t] = tk_post[t] /\ token' = tk_post[t])]_vars

\* C8 witness: a call has returned the token cached by the one earlier POST
C8_Witness ==
    /\ posts = 1
    /\ \E t \in Tasks : tk_pc[t] = "returned" /\ tk_post[t] = 0 /\ tk_ret[t] = 1

\* C9: when the admission check denies, exponential_backoff_retry returns
\* 503 "Circuit breaker open. Try later." without one upstream call and
\* without changing the breaker.
C9_DeniedRequestGetsOpen503 ==
    [][\A t \in Tasks :
          (EntersRetry(t) /\ Cooling) =>
              /\ pc'[t] = "done"
              /\ result'[t].status = 503
              /\ result'[t].body.kind = "Circuit breaker open. Try later."
              /\ sent'[t] = 0
              /\ <<is_open', open_time', failure_timestamps'>>
                    = <<is_open, open_time, failure_timestamps>>]_vars

\* C9 witness: a request has been answered with the 503 of the open breaker
C9_Witness ==
    \E t \in Tasks : pc[t] = "done" /\ result[t] = BreakerOpenResult /\ sent[t] = 0

\* C10 as stated: against an upstream that always returns 500 a call issues
\* exactly 1 + max_retries attempts and returns a non-2xx response.
C10_Original ==
    \A t \in Tasks :
        (pc[t] = "done" /\ upstream = "always500") =>
            /\ sent[t] = 1 + max_retries
            /\ result[t].status \notin SuccessStatusCodes

\* C10 amended: against an upstream that always returns 500 a call that the
\* breaker neither denies nor cuts short issues exactly 1 + max_retries
\* attempts and returns 500; a denied call issues none, a call that activates
\* the breaker at most 1 + max_retries, and both return 503.
C10_RetryTermination ==
    \A t \in Tasks :
        (pc[t] = "done" /\ upstream = "always500") =>
            /\ result[t].status \notin SuccessStatusCodes
            /\ sent[t] <= 1 + max_retries
            /\ result[t] \notin BreakerResults =>
                  (sent[t] = 1 + max_retries /\ result[t].status = 500)
            /\ result[t] \in BreakerResults => result[t].status = 503
            /\ result[t].body.kind = "Circuit breaker open. Try later." => sent[t] = 0
            /\ result[t].body.kind = "Circuit breaker activated. Try later." => sent[t] >= 1

\* C10 witness: two attempts answered 500, then 500 returned
C10_Witness ==
    /\ max_retries = 1
    /\ \E t \in Tasks :
          pc[t] = "done" /\ upstream = "always500" /\ sent[t] = 2 /\ result[t].status = 500

\* steps and outcomes of one executor call
RespondsTo(t) == pc[t] = "inflight" /\ pc'[t] # "inflight"
IsResponse(o) == o.kind = "response"
RetryableFailure(o) ==
    \/ o.kind \in {"ConnectError", "RequestError"}
    \/ IsResponse(o) /\ o.status \in {500, 502, 503, 504}

\* C11: when a retryable failure (500, 502, 503, 504, a connection error or a
\* request error) makes record_failure return true, the executor returns 503
\* "Circuit breaker activated. Try later." at once: no further upstream
\* attempt and no back-off sleep, even if attempts remain.
C11_ActivationEndsTheCall ==
    [][\A t \in Tasks :
          (/\ RespondsTo(t)
           /\ RetryableFailure(last_outcome'[t])
           /\ RecordFailureResult(BreakerState, now))
              => /\ pc'[t] = "done"
                 /\ result'[t].status = 503
                 /\ result'[t].body.kind = "Circuit breaker activated. Try later."
                 /\ result'[t].passthrough = FALSE
                 /\ sent'[t] = sent[t]
                 /\ wake_at'[t] = wake_at[t]]_vars

\* C11 witness: a 502 has tripped the breaker and ended a call that had
\* attempts left
C11_Witness ==
    \E t \in Tasks :
        /\ pc[t] = "done"
        /\ last_outcome[t].status = 502
        /\ result[t].body.kind = "Circuit breaker activated. Try later."
        /\ sent[t] < 1 + max_retries

\* the for loop of a call ends without a return from inside it
Exhausts(t) == pc[t] = "sleep" /\ pc'[t] = "done"

\* C12: when all 1 + max_retries attempts are used up the call returns the
\* status code of the last HTTP response it received, and 523 exactly when
\* no attempt of the call received a response.
C12_ExhaustionStatus ==
    [][\A t \in Tasks :
          Exhausts(t) =>
              /\ sent[t] = 1 + max_retries
              /\ result'[t].passthrough = FALSE
              /\ seen_status[t] # 0 => result'[t].status = seen_status[t]
              /\ result'[t].status = 523 <=> seen_status[t] = 0]_vars

\* C12 witness: two attempts have raised and the call has returned 523
C12_Witness ==
    \E t \in Tasks :
        /\ pc[t] = "done"
        /\ sent[t] = 2
        /\ seen_status[t] = 0
        /\ last_outcome[t].kind = "ConnectError"
        /\ result[t].status = 523

\* the call of task t has just received a 429
RateLimited(t) == RespondsTo(t) /\ IsResponse(last_outcome'[t]) /\ last_outcome'[t].status = 429

C14_OtherStatusIsReturned ==
    [][\A t \in Tasks :
          (/\ RespondsTo(t)
           /\ IsResponse(last_outcome'[t])
           /\ last_outcome'[t].status \notin {429, 500, 502, 503, 504})
              => /\ failure_timestamps' = <<>>
                 /\ is_open' = is_open
                 /\ open_time' = open_time
                 /\ pc'[t] = "done"
                 /\ result'[t].passthrough
                 /\ result'[t].status = last_outcome'[t].status
                 /\ result'[t].body.kind = "upstream"
                 /\ result'[t].body.status = last_outcome'[t].status
                 /\ sent'[t] = sent[t]]_vars

\* C14 witness: a 404 has been returned as it came and the failure list is
\* empty although another call is in back-off after a 500
C14_Witness ==
    \E t, u \in Tasks :
        /\ pc[t] = "done"
        /\ result[t].passthrough
        /\ result[t].status = 404
        /\ pc[u] = "sleep"
        /\ last_outcome[u].status = 500
        /\ failure_timestamps = <<>>

\* an upstream attempt of the call of task t starts
AttemptStarts(t) == sent'[t] = sent[t] + 1

\* C15: within one call the retries are serial: an attempt starts only when
\* the attempt before it has completed and the delay that follows it (the
\* back-off, or Retry-After for a 429) has passed since then; a call never has
\* two attempts in flight.
C15_RetriesAreSerial ==
    [][\A t \in Tasks :
          /\ sent'[t] <= sent[t] + 1
          /\ AttemptStarts(t) =>
                /\ pc[t] # "inflight"
                /\ pc'[t] = "inflight"
                /\ sent'[t] = attempt'[t] + 1
                /\ sent[t] >= 1 =>
                      /\ pc[t] = "sleep"
                      /\ now >= answered_at[t]
                                + (IF last_outcome[t].status = 429
                                      /\ last_outcome[t].retry_after # NoHeader
                                   THEN last_outcome[t].retry_after
                                   ELSE base_delay * backoff_factor ^ attempt[t])]_vars

\* C15 witness: the second attempt of a call is in flight, started one
\* back-off delay after the first one failed
C15_Witness ==
    \E t \in Tasks :
        /\ pc[t] = "inflight"
        /\ sent[t] = 2
        /\ base_delay = 1
        /\ last_outcome[t].status = 500
        /\ now = answered_at[t] + 1

\* C16 as stated (scenario S4: max_retries = 2, every attempt answered 500):
\* a call receives 500 after exactly 3 attempts, and a request sent once the
\* failure threshold has been reached is answered 503 "Circuit breaker
\* activated".
C16_Original ==
    [][\A t \in Tasks :
          /\ (RespondsTo(t) \/ Exhausts(t)) /\ pc'[t] = "done" =>
                (result'[t].status = 500 /\ sent[t] = 3)
          /\ (EntersRetry(t) /\ Cooling) =>
                /\ result'[t].status = 503
                /\ result'[t].body.kind = "Circuit breaker activated. Try later."]_vars

\* C16 amended: a call whose failures do not bring the breaker to its
\* threshold receives 500 after exactly 3 attempts; the call whose failure
\* reaches the threshold is answered 503 "Circuit breaker activated. Try
\* later."; a request sent once the threshold has been reached, while the
\* breaker cools down, is answered 503 "Circuit breaker open. Try later."
\* without an upstream attempt.
C16_ScenarioS4 ==
    [][\A t \in Tasks :
          /\ (EntersRetry(t) /\ Cooling) =>
                /\ pc'[t] = "done"
                /\ result'[t].status = 503
                /\ result'[t].body.kind = "Circuit breaker open. Try later."
                /\ sent'[t] = 0
          /\ (RespondsTo(t) /\ RecordFailureResult(BreakerState, now)) =>
                /\ pc'[t] = "done"
                /\ result'[t].status = 503
                /\ result'[t].body.kind = "Circuit breaker activated. Try later."
          /\ (RespondsTo(t) /\ ~RecordFailureResult(BreakerState, now)) =>
                pc'[t] = "sleep"
          /\ Exhausts(t) =>
                /\ result'[t].status = 500
                /\ result'[t].body.kind = "upstream"
                /\ sent[t] = 3]_vars

\* C16 witness: threshold 4; one call has made its three attempts and
\* returned, and the first failure of the next call has tripped the breaker
C16_Witness ==
    \E t \in Tasks :
        /\ failure_threshold = 4
        /\ max_retries = 2
        /\ requests_left = 0
        /\ \A u \in Tasks \ {t} : pc[u] = "idle"
        /\ pc[t] = "done"
        /\ sent[t] = 1
        /\ Len(failure_timestamps) = 4
        /\ result[t].body.kind = "Circuit breaker activated. Try later."

\* the request being served is a streaming request: a POST whose JSON body
\* has "stream": true
StreamingRequest == rq.method = "POST" /\ rq.body = "stream_true"

\* C17: a streaming request is never retried: from the moment it is taken,
\* exactly one upstream send has been made for it, whether the send fails to
\* connect, is answered with an error status, or the stream breaks half way;
\* it never enters the retry executor.
C17_StreamingSentOnce ==
    StreamingRequest =>
        /\ sr_sends = 1
        /\ sr_pc # "executor"
        /\ \A t \in Tasks : sent[t] = 0 /\ op[t] = "none"

\* C17 witness: a stream broke after its first chunk and the handler is
\* through; one send was made
C17_Witness ==
    /\ StreamingRequest
    /\ sr_pc = "finished"
    /\ sr_end = "upstream_error"
    /\ Len(upstream_chunks) = 1
    /\ sr_sends = 1

\* the streaming response the client is given for upstream's answer
StreamsUpstream ==
    /\ sr_response.kind = "stream"
    /\ sr_response.media_type = "text/event-stream"
    /\ sr_response.status = up_status
    /\ client_chunks = upstream_chunks

\* C18 as stated: every 2xx answer to a streaming request is streamed to the
\* client as text/event-stream with upstream's status and upstream's chunks.
C18_Original ==
    (StreamingRequest /\ up_status \in 200..299) => StreamsUpstream

\* C18: for a streaming request that upstream answers with a success status
\* (200 to 208, or 226) the client receives a text/event-stream response
\* with upstream's status whose chunks are upstream's chunks, byte for byte
\* and in order; at every point the chunks upstream has delivered are the
\* chunks handed to the client, so no chunk is held back while the next is
\* read.
C18_StreamForwarded ==
    (StreamingRequest /\ up_status \in (200..208) \cup {226}) => StreamsUpstream

\* C18 witness: a stream answered 226 has come to its end after two chunks,
\* one of them not valid UTF-8
C18_Witness ==
    /\ StreamingRequest
    /\ up_status = 226
    /\ sr_end = "eof"
    /\ sr_pc = "finished"
    /\ Len(upstream_chunks) = 2
    /\ upstream_chunks[1] = "bad_utf8"
    /\ client_chunks = upstream_chunks

\* the handling of the request's response is over: the handler returned a
\* JSON response, or the streaming response has ended
ResponseOver == sr_pc \in {"returned", "finished"}

\* C19: once upstream has answered 2xx to a streaming request, the upstream
\* connection is closed when the response is over, however it ended: at the
\* end of the stream, on an upstream error in mid-stream, or on a client
\* disconnect at any point, also before the first chunk was consumed.
C19_UpstreamClosed ==
    (StreamingRequest /\ up_status \in 200..299 /\ ResponseOver) => up_open = "closed"

\* the stripped lines of everything upstream has sent, decoded
UpstreamLines == JoinLines([i \in DOMAIN upstream_chunks |-> Decode(upstream_chunks[i])])

\* the stream is over and its generator has run its finally block
StreamOver == StreamingRequest /\ sr_pc = "finished" /\ up_open = "closed"

\* no token counter was raised by a positive amount
NothingCounted ==
    \A i \in DOMAIN counter_log :
        counter_log[i].prompt = 0 /\ counter_log[i].completion = 0 /\ counter_log[i].total = 0

\* the counters were raised once, by the usage of frame p under the labels
\* of the request and of p's model, and one streaming trace record was made
CountedOnce(p) ==
    /\ counter_log =
           <<[labels |-> [type |-> "prompt", name |-> "proxy",
                          group_id |-> IF rq.group_id = "absent" THEN "unknown"
                                       ELSE rq.group_id,
                          model |-> p.model],
              prompt |-> p.usage.prompt, completion |-> p.usage.completion,
              total |-> p.usage.total]>>
    /\ Len(trace_log) = 1
    /\ trace_log[1].is_streaming

\* the metrics of a stream are written only once upstream is closed
MetricsAfterClose ==
    /\ sr_pc = "gen_metrics" => up_open = "closed"
    /\ (StreamingRequest /\ (counter_log # <<>> \/ trace_log # <<>>)) =>
           up_open = "closed"

\* C20 as stated: after the stream has closed, if the last data line other
\* than "data: [DONE]" carries a usage object the counters are raised by
\* exactly its values under the model of that frame and a streaming trace
\* record is emitted; no other frame contributes.
C20_Original ==
    /\ MetricsAfterClose
    /\ StreamOver =>
           LET idx == {i \in DOMAIN UpstreamLines : UpstreamLines[i] \in DataLines}
           IN  IF idx = {} THEN NothingCounted
               ELSE LET last == CHOOSE i \in idx : \A j \in idx : j <= i
                        p == Payload(UpstreamLines[last])
                    IN  IF p.ok /\ p.usage.present /\ p.usage.is_dict
                        THEN CountedOnce(p)
                        ELSE NothingCounted

\* C20: when the path contains "completions", streaming metrics extraction
\* runs after the upstream stream has closed and uses only the last line
\* that starts with "data:" and is not "data: [DONE]": if that frame's JSON
\* has a usage object and a model, the token counters are raised by exactly
\* its prompt, completion and total values under the labels type prompt,
\* name proxy, group_id the X-Group-Id header or "unknown", model the frame's
\* model, and a trace record with is_streaming true is emitted; earlier
\* frames never contribute.
C20_StreamMetrics ==
    /\ MetricsAfterClose
    /\ (StreamOver /\ rq.completions) =>
           LET idx == {i \in DOMAIN UpstreamLines : UpstreamLines[i] \in DataLines}
           IN  IF idx = {} THEN NothingCounted
               ELSE LET last == CHOOSE i \in idx : \A j \in idx : j <= i
                        p == Payload(UpstreamLines[last])
                    IN  IF p.ok /\ p.usage.present /\ p.usage.is_dict
                           /\ p.model # "absent"
                        THEN CountedOnce(p)
                        ELSE NothingCounted

\* C20 witness: a usage frame, then another usage frame followed by [DONE];
\* the counters hold the second frame's usage only
C20_Witness ==
    /\ StreamOver
    /\ rq.completions
    /\ rq.group_id = "g1"
    /\ upstream_chunks = <<"usage_a", "two_frames">>
    /\ Len(counter_log) = 1
    /\ counter_log[1].total = 4
    /\ counter_log[1].labels.model = "m2"
    /\ Len(trace_log) = 1

\* C21: a streaming request that fails before the first byte is answered
\* with a plain JSON response: a connection or request error on the send
\* gives 502 "Upstream connection failed", and a non-2xx upstream status
\* gives the upstream body as JSON under the upstream status, the upstream
\* response being read and closed when the handler returns.
C21_EarlyFailureIsJson ==
    /\ (StreamingRequest /\ sr_pc # "send" /\ up_status = 0) =>
           /\ sr_pc = "returned"
           /\ sr_response = [kind |-> "json", status |-> 502,
                             media_type |-> "application/json",
                             message |-> "Upstream connection failed"]
    /\ (StreamingRequest /\ up_status # 0 /\ up_status \notin 200..299) =>
           /\ sr_pc = "returned"
           /\ sr_response = [kind |-> "json", status |-> up_status,
                             media_type |-> "application/json",
                             message |-> "upstream body"]
           /\ up_open = "closed"
           /\ upstream_chunks = <<>> /\ client_chunks = <<>>

\* C21 witness: upstream answered a streaming request 404 and the handler
\* returned the JSON response with upstream closed
C21_Witness ==
    /\ StreamingRequest
    /\ sr_pc = "returned"
    /\ up_status = 404
    /\ sr_response.kind = "json"
    /\ sr_response.status = 404
    /\ up_open = "closed"

\* the response is a JSON document with a top-level "error" object: the
\* proxy's envelope, or an upstream JSON body that has one itself
HasErrorObject ==
    /\ sr_response.kind = "json"
    /\ \/ sr_content = "error_envelope"
       \/ sr_content = "upstream" /\ up_body = "json_error"

\* C22: every non-2xx response returned on a non-streaming path (plain
\* forwarding, multipart forwarding, breaker 503, retry exhaustion, internal
\* exception) is a JSON document with a top-level "error" object.
C22_ErrorsHaveErrorObject ==
    (rq # NoRequest /\ ~StreamingRequest /\ sr_pc = "returned"
        /\ sr_response.status \notin 200..299) => HasErrorObject

\* C23: a failure while extracting or recording token metrics or while
\* emitting the trace record never changes what the client receives: a
\* success answer of upstream to a non-streaming request is returned with
\* its status and its body, as it is when nothing is recorded, and a
\* streamed answer stays the stream of upstream's chunks.
C23_MetricsNeverChangeResponse ==
    /\ (rq # NoRequest /\ ~StreamingRequest /\ rq.body # "multipart"
          /\ sr_pc = "returned" /\ up_status \in SuccessStatusCodes) =>
           /\ sr_response.status = up_status
           /\ sr_content = (IF up_body = "text" THEN "detail" ELSE "upstream")
    /\ (StreamingRequest /\ up_status \in SuccessStatusCodes) =>
           /\ sr_response.status = up_status
           /\ sr_content = "stream"

\* the request's body is JSON whose model is "prefix/rest" with prefix a
\* loaded provider
NamesLoadedProvider(r) ==
    /\ r.body.kind = "object"
    /\ r.body.model.t = "str"
    /\ ResolveModel(hub, r.body.model.v).found

\* the router has taken the request
Routed == rt_pc \in {"routed", "forwarded", "raised"}

\* C24: a request the router has taken is handled by exactly one of the two
\* paths, and by the provider path exactly when it is a POST, the registry
\* is non-empty and its body is JSON whose model is "prefix/rest" with prefix
\* a loaded provider
C24_ExactlyOnePath ==
    Routed =>
        /\ route \in {"provider", "single"}
        /\ route = "provider" <=>
              (req.method = "POST" /\ hub # {} /\ NamesLoadedProvider(req))

\* the text of a name after its first "/"
AfterFirstSlash(name) == SubSeq(name, FirstSlash(name) + 1, Len(name))

\* the body sent is the client's body with the model replaced by the text
\* after the first "/" and every other field as the client sent it
ModelReplaced ==
    /\ sent_body.kind = "object"
    /\ sent_body.model = [t |-> "str", v |-> AfterFirstSlash(original_model)]
    /\ sent_body.stream = req.body.stream

\* C25: when resolution selects a provider the body sent upstream has the
\* model replaced by the stripped name and every other field unchanged; a
\* body that is not JSON, or whose model is not the resolved prefixed name,
\* is sent unchanged
C25_PrefixStripped ==
    /\ (rt_pc = "forwarded" /\ route = "provider") => ModelReplaced
    /\ rt_pc = "stripped" =>
          IF req.body.kind = "object"
             /\ req.body.model = [t |-> "str", v |-> original_model]
          THEN ModelReplaced
          ELSE sent_body = req.body

C25_Witness ==
    /\ rt_pc = "forwarded"
    /\ route = "provider"
    /\ req.body.model.v = <<"a", "/", "b">>
    /\ req.body.stream
    /\ sent_body.model.v = <<"b">>
    /\ sent_body.stream

\* the router asked the registry to resolve the request's model
AskedRegistry ==
    /\ rt_pc \in {"routed", "forwarded"}
    /\ req.method = "POST"
    /\ hub # {}
    /\ req.body.kind = "object"
    /\ req.body.model.t = "str"
    /\ req.body.model.v # <<>>

\* C26: resolve_model splits on the first "/" only: when the part before
\* the first "/" is a loaded prefix it returns that provider and the
\* remainder, which may contain "/"; when the name has no "/" or the prefix
\* is not loaded it returns nothing
C26_SplitOnFirstSlash ==
    AskedRegistry =>
        LET name == req.body.model.v
        IN  IF \E i \in 1..Len(name) :
                  /\ name[i] = "/"
                  /\ \A j \in 1..(i - 1) : name[j] # "/"
                  /\ SubSeq(name, 1, i - 1) \in hub
            THEN /\ route = "provider"
                 /\ provider \in hub
                 /\ ~HasSlash(provider)
                 /\ provider \o <<"/">> \o stripped_model = name
            ELSE route = "single"

C26_Witness ==
    /\ AskedRegistry
    /\ req.body.model.v = <<"a", "/", "/">>
    /\ route = "provider"
    /\ provider = <<"a">>
    /\ stripped_model = <<"/">>

\* C28: a multipart POST the router has taken goes to the multipart
\* forwarder, which sends once without retry, and its body has not been
\* read into memory, whether or not a registry is loaded
C28_MultipartStreamed ==
    (Routed /\ req.method = "POST" /\ req.multipart) =>
        /\ rt_pc # "raised"
        /\ ~body_read
        /\ rt_pc = "forwarded" => forwarder = "multipart"

\* C27: the breaker of a provider opens only when the provider record's
\* failure_threshold is positive and that many failures are on record, so a
\* provider whose failure_threshold is 0 never opens
C27_ProviderPolicyGoverns ==
    [][(is_open' /\ ~is_open) =>
           /\ provider_config.failure_threshold > 0
           /\ Len(failure_timestamps') >= provider_config.failure_threshold]_vars

\* the outbound headers have been built
Built == hd_pc \in {"single", "provider"}

\* a pattern of the denylist matches the lower-case name: the pattern is the
\* name, or ends in "*" after a prefix of the name
Denied(k) ==
    \E pat \in denylist :
        \/ pat = Lower(k)
        \/ /\ pat[Len(pat)] = "*"
           /\ Len(k) >= Len(pat) - 1
           /\ \A i \in 1..(Len(pat) - 1) : pat[i] = Lower(k)[i]

\* the client's header is sent upstream with the client's value
ForwardedClient(k) ==
    k \in DOMAIN outbound /\ outbound[k] = client_headers[k]

\* the proxy writes this name itself after the filtering
ProxyAdded(k) == k \in DOMAIN custom_headers \/ k = <<"accept-encoding">>

\* the proxy's auth headers and accept-encoding: identity are in the outbound set
AdditionsSent ==
    /\ \A k \in DOMAIN custom_headers :
          k \in DOMAIN outbound /\ outbound[k] = custom_headers[k]
    /\ <<"accept-encoding">> \in DOMAIN outbound
    /\ outbound[<<"accept-encoding">>] = "identity"

\* every outbound Authorization header is one the proxy added
AuthorizationIsProxys ==
    \A k \in DOMAIN outbound :
        Lower(k) = <<"authorization">> => k \in DOMAIN custom_headers

\* the multipart forwarder of the single path built the outbound set
MultipartSingle == hd_pc = "single" /\ hd_multipart

\* C29 as stated: for every header set and every denylist no denylisted
\* client header is forwarded, every other client header is forwarded
\* unchanged unless the proxy writes that name itself, the proxy's additions
\* are sent, and an outbound Authorization header is always the proxy's own
C29_Original ==
    Built =>
        /\ \A k \in DOMAIN client_headers :
              IF Denied(k) THEN ~ForwardedClient(k)
              ELSE ProxyAdded(k) \/ ForwardedClient(k)
        /\ AdditionsSent
        /\ AuthorizationIsProxys

\* C29 amended: no denylisted client header is forwarded; every other client
\* header is forwarded unchanged unless the proxy writes that name itself,
\* except that a multipart POST on the single-provider path also drops the
\* hop-by-hop headers; the proxy's additions are sent; and when the denylist
\* matches authorization an outbound Authorization header is the proxy's own
C29_HeadersSanitized ==
    Built =>
        /\ \A k \in DOMAIN client_headers :
              IF Denied(k) THEN ~ForwardedClient(k)
              ELSE IF MultipartSingle /\ Lower(k) \in HopByHop
              THEN k \notin DOMAIN outbound
              ELSE ProxyAdded(k) \/ ForwardedClient(k)
        /\ AdditionsSent
        /\ Denied(<<"authorization">>) => AuthorizationIsProxys

C29_Witness ==
    /\ hd_pc = "single"
    /\ ~hd_multipart
    /\ denylist = {<<"authorization">>, <<"x-forwarded-", "*">>}
    /\ DOMAIN client_headers =
          {<<"authorization">>, <<"x-forwarded-", "for">>, <<"x-group-id">>,
           <<"accept-encoding">>}
    /\ DOMAIN outbound = {<<"Authorization">>, <<"x-group-id">>, <<"accept-encoding">>}
    /\ outbound[<<"Authorization">>] = "Bearer proxy"
    /\ outbound[<<"x-group-id">>] = "client"

\* upstream answered the probe with a success whose model is missing or has
\* no ":" separator
MalformedReport ==
    /\ ver_reported.status \in 200..299
    /\ ver_reported.json = "object"
    /\ \/ ver_reported.model.t \in {"absent", "null"}
       \/ ver_reported.model.t = "str" /\ ~HasColon(ver_reported.model.v)

\* C30: when upstream answers 2xx with a model that is missing or has no
\* ":" the client is given an error, and a success response always carries
\* a body {"version": "<name>:<version>"}
C30_VersionOrError ==
    ver_pc = "returned" =>
        /\ MalformedReport => ver_response.status >= 400
        /\ ver_response.status \in 200..299 =>
              /\ ver_response.form = "version"
              /\ HasColon(ver_response.version)

\* a fetch_token of task t completes without raising
RefreshSucceeds(t) == tk_pc[t] = "posting" /\ tk_pc'[t] = "returned"

\* C31: after every successful refresh the stored expires_at is the expiry
\* reported by that response minus 20,000 ms and the stored token is the
\* token of that response
C31_StoredFromSameResponse ==
    [][\A t \in Tasks :
          RefreshSucceeds(t) =>
              /\ expires_at' = tk_expires_at'[t] - 20000
              /\ token' = tk_post[t]
              /\ token' # NoToken]_vars

C31_Witness ==
    \E t \in Tasks :
        /\ tk_pc[t] = "returned"
        /\ tk_post[t] # 0
        /\ token = tk_post[t]
        /\ tk_expires_at[t] > 0
        /\ expires_at = tk_expires_at[t] - 20000

\* a fetch_token of task t raises
RefreshFails(t) == tk_pc[t] = "posting" /\ tk_pc'[t] = "raised"

\* get_token of task t returns the cached token without a refresh
ReturnsCached(t) == tk_pc[t] = "idle" /\ tk_pc'[t] = "returned"

\* C38: a failed refresh raises and leaves no valid cache entry: get_token
\* never returns from the cache a token other than the one whose own
\* response set the stored expiry
C38_FailedRefreshLeavesNoEntry ==
    [][\A t \in Tasks :
          /\ RefreshFails(t) => tk_ret'[t] = NoToken
          /\ ReturnsCached(t) => tk_ret'[t] = expires_from]_vars

RecordSuccessReturns(t) == pc[t] = "rs_clear" /\ pc'[t] = "op_done"

\* the sequence is in non-decreasing order
NonDecreasing(ts) == \A i, j \in 1..Len(ts) : i <= j => ts[i] <= ts[j]

\* C32: when record_failure returns, every timestamp of the failure list is
\* newer than the call's current time minus window_size and the list is in
\* non-decreasing order; when record_success returns the list is empty
C32_FailureListInvariant ==
    [][\A t \in Tasks :
          /\ RecordFailureReturns(t) =>
                /\ \A i \in 1..Len(failure_timestamps') :
                      failure_timestamps'[i] > current_time[t] - window_size
                /\ NonDecreasing(failure_timestamps')
                /\ Len(failure_timestamps') >= 1
          /\ RecordSuccessReturns(t) => failure_timestamps' = <<>>]_vars

\* C32 witness: record_failure has returned after dropping an old timestamp
\* and keeping a newer one next to its own
C32_Witness ==
    \E t \in Tasks :
        /\ pc[t] = "op_done"
        /\ op[t] = "record_failure"
        /\ Len(pre[t].failure_timestamps) >= 2
        /\ Len(failure_timestamps) = 2
        /\ failure_timestamps[1] < failure_timestamps[2]

\* C33 as stated: while the breaker is open and within recovery_time no
\* upstream attempt starts, also not by a call that was admitted before the
\* breaker opened and is in back-off
C33_Original ==
    [][\A t \in Tasks : AttemptStarts(t) => ~Cooling]_vars

\* C33: while the breaker is open and within recovery_time a call that
\* enters the executor gets the 503 "open" without an upstream attempt; the
\* only attempts that start are those of calls admitted earlier, which wake
\* from their back-off and go on with their remaining attempts
C33_NoAdmissionWhileCooling ==
    [][\A t \in Tasks :
          /\ (EntersRetry(t) /\ Cooling) =>
                /\ ~AttemptStarts(t)
                /\ result'[t] = BreakerOpenResult
          /\ (AttemptStarts(t) /\ Cooling) =>
                /\ pc[t] = "sleep"
                /\ now >= wake_at[t]]_vars

\* C33 witness: the breaker opened while a call was in back-off; that call
\* woke during the cool-down and has its next attempt in flight
C33_Witness ==
    \E t \in Tasks :
        /\ Cooling
        /\ pc[t] = "inflight"
        /\ attempt[t] >= 1
        /\ sent[t] = 2
        /\ open_time < wake_at[t]

\* C34 as stated: while the breaker is open and in cool-down open_time does
\* not change
C34_Original ==
    [][Cooling => open_time' = open_time]_vars

\* the call of task t is answered with a failure and its record_failure
\* reports the threshold as met
ActivatedBy(t) == RespondsTo(t) /\ result'[t] = BreakerActivatedResult

\* C34: while the breaker is open and in cool-down, open_time changes only
\* when a record_failure finds the threshold met, and every such
\* record_failure sets it to the current time: a failure recorded by a
\* request that was already in flight pushes back the time at which
\* admission resumes
C34_OpenTimeMovesOnlyOnActivation ==
    [][Cooling =>
          /\ open_time' # open_time => \E t \in Tasks : ActivatedBy(t)
          /\ \A t \in Tasks : ActivatedBy(t) => (is_open' /\ open_time' = now)]_vars

\* C34 witness: with a threshold of one the failure at the head of the list
\* opened the breaker, and a later failure inside that cool-down moved
\* open_time forward
C34_Witness ==
    /\ failure_threshold = 1
    /\ is_open
    /\ Len(failure_timestamps) >= 2
    /\ failure_timestamps[1] < open_time
    /\ open_time - failure_timestamps[1] < recovery_time
    /\ \E t \in Tasks : pc[t] = "done" /\ result[t] = BreakerActivatedResult

\* the call of task t is answered with a non-retryable status: record_success
\* is called and the response is handed back
SuccessRecordedBy(t) == RespondsTo(t) /\ result'[t].passthrough

\* C35: record_success leaves is_open and open_time unchanged, so a success
\* reported by an in-flight request while the breaker is open and cooling
\* leaves it open and cooling
C35_SuccessKeepsBreakerOpen ==
    [][\A t \in Tasks :
          SuccessRecordedBy(t) =>
              /\ is_open' = is_open
              /\ open_time' = open_time
              /\ Cooling => Cooling']_vars

\* C35 witness: a request in flight when the breaker opened was answered
\* with a success later in the cool-down, and the breaker is still cooling
C35_Witness ==
    \E t \in Tasks :
        /\ pc[t] = "done"
        /\ result[t].passthrough
        /\ answered_at[t] > open_time
        /\ Cooling
        /\ failure_timestamps = <<>>

\* a multipart upload, or a POST whose JSON body has stream: true
BypassRequest(r) == r.method = "POST" /\ r.body \in {"multipart", "stream_true"}

\* a step of the front handler
FrontStep == streamVars' # streamVars

\* C36: a streaming or multipart request is sent upstream when it is taken,
\* also while the breaker is open and cooling, and no step of the front
\* handler for such a request changes is_open, open_time or the failure
\* list, whatever upstream answers
C36_BypassLeavesBreakerAlone ==
    [][(FrontStep /\ BypassRequest(rq')) =>
          /\ is_open' = is_open
          /\ open_time' = open_time
          /\ failure_timestamps' = failure_timestamps
          /\ rq = NoRequest => (sr_sends' = sr_sends + 1 /\ sent' = sent)]_vars

\* C36 witness: a streaming or multipart request taken while the breaker
\* was open and cooling was sent, upstream failed it, and the breaker is as
\* the other request left it
C36_Witness ==
    /\ BypassRequest(rq)
    /\ sr_cooling
    /\ sr_pc = "returned"
    /\ sr_sends = 1
    /\ up_status \in {0, 500}
    /\ is_open
    /\ Len(failure_timestamps) = 1

\* the breaker a request on route r is meant to use
RoutedUpstream(r) == IF r.path = "provider" THEN r.provider ELSE DefaultBreaker

\* a step of the request of task t, and the route of that request
CallStep(t) == call_pc'[t] # call_pc[t] \/ call_attempt'[t] # call_attempt[t]
StepRoute(t) == IF call_pc[t] = "idle" THEN call_route'[t] ELSE call_route[t]

\* C37: breaker state is isolated per upstream: every step of a request
\* routed to a provider leaves the breaker of every other provider and the
\* default breaker as they are, and every step of a request on the
\* single-provider path leaves every provider's breaker as it is
C37_BreakersIsolated ==
    [][\A t \in Tasks :
          CallStep(t) =>
              \A u \in Upstreams \ {RoutedUpstream(StepRoute(t))} :
                  breakers'[u] = breakers[u]]_vars

\* C37 witness: failures of requests to provider A opened A's breaker, a
\* failure on the single-provider path is in the default breaker's list
\* only, and provider B's breaker is as constructed
C37_Witness ==
    /\ breakers["A"].is_open
    /\ ~breakers[DefaultBreaker].is_open
    /\ Len(breakers[DefaultBreaker].failure_timestamps) = 1
    /\ Len(breakers["A"].failure_timestamps) = 2
    /\ breakers["B"] = InitialBreaker

\* C39: a call makes at most 1 + max_retries upstream attempts whatever the
\* outcomes, and against an upstream that always returns 429 a call that has
\* ended made exactly 1 + max_retries attempts and returned status 429
C39_RateLimitUsesBudget ==
    \A t \in Tasks :
        pc[t] = "done" =>
            /\ sent[t] <= 1 + max_retries
            /\ upstream = "always429" =>
                  (sent[t] = 1 + max_retries /\ result[t].status = 429)

\* C40: when the attempts are used up the status code and the body that
\* are returned describe the last attempt: the body is that attempt's, an
\* upstream body comes with the status of its own response, and the body of
\* a connection failure comes with 523, never with the status code of an
\* earlier HTTP response
C40_StatusAndBodyOfLastAttempt ==
    [][\A t \in Tasks :
          Exhausts(t) =>
              /\ result'[t].body.attempt = sent[t]
              /\ result'[t].body.kind = "upstream" =>
                    result'[t].status = result'[t].body.status
              /\ result'[t].body.kind \in {"ConnectError", "RequestError"} =>
                    result'[t].status = NoResponseStatus]_vars

====
